---- MODULE Spec2Model ----
(***************************************************************************)
(* State-machine model of the proxy core of seb-unblocker-v7:              *)
(*   - PuppeteerPool            (src/proxy/websocketHandler.js 265-341)    *)
(*   - throttler                (src/unnamed/part_003 148-211)             *)
(*   - proxyHandler             (src/unnamed/part_005 22-56)               *)
(*   - ResourceCache            (src/proxy/cookies.js 134-217)             *)
(*   - cookie jar               (src/proxy/cookies.js 16-105)              *)
(*   - Fetcher._fetchWithRetries(src/proxy/fetcher.js 73-134)              *)
(* Every component has its own specification (SpecPool, SpecThrottle, ...) *)
(* over the shared variables; a component's actions leave the variables of *)
(* the other components unchanged.  An action is one synchronous run of    *)
(* JavaScript: from a call or a resumption up to the next await.           *)
(***************************************************************************)
EXTENDS Integers, Sequences, FiniteSets, TLC

VARIABLES
  now,            \* Date.now(), in model ticks
  \* ---- PuppeteerPool
  browsers,       \* this.browsers: sequence of browser ids (the entries)
  inUse,          \* entry.inUse, per browser id (an entry object outlives the array)
  queue,          \* this.queue: sequence of job ids
  isShuttingDown, \* this.isShuttingDown
  pq,             \* the _processQueue invocations: where each is suspended
  jobs,           \* per job: its outcome as its caller sees it
  runsOn,         \* per job: the browser id its renderFn was started on (0: none)
  launched,       \* number of puppeteer.launch calls that resolved (next id - 1)
  open,           \* history: browser ids launched and not yet closed
  closing,        \* browser ids whose close() shutdown has called and awaits
  shut,           \* position of shutdown()
  \* ---- throttler
  ipStore,        \* Map ip -> timestamps (a function on the ips it holds)
  sweepDue,       \* earliest time the setInterval sweep fires next
  decisions,      \* history: per ip, the <<time, outcome>> of each request
  statsOut,       \* what the getIPStats call of the last step returned, if any
  \* ---- proxyHandler
  prq,            \* the proxy request in progress: pc, inputs, response, stages
  \* ---- ResourceCache
  memoryCache,    \* this.memoryCache: entries [key, data, expire] in Map order
  disk,           \* the cache directory: per key, the file's content or NoFile
  pendingDisk,    \* fs.writeFile / fs.unlink calls issued and not yet carried out
  stats,          \* this.stats: [hits, misses]
  calls,          \* the set/get/delete calls suspended at their await, in order
  cacheOps,       \* number of cache calls started
  lastGet,        \* history: the latest get: key, value expected, value returned
  race,           \* history: a set(k, v2) that ran while a get(k) was suspended
  gets,           \* history: number of get calls that returned
  cacheErr,       \* history: the cache call that rejected ("" when none did)
  diskErrors,     \* history: number of disk failures passed to logger.logError
  deleted,        \* history: per key, delete(key) returned and no set(key) since
  \* ---- cookie jar
  sessions,       \* Map sessionId -> cookie list (a function on the ids it holds)
  stored,         \* history: per session, the cookies stored since it was created
  cookieOut,      \* history: the latest getCookies call: time, jar read, text returned
  cookieOps,      \* number of cookie jar calls made
  \* ---- fetcher
  fx,             \* the Fetcher and its _fetchWithRetries call: position, attempt,
                  \* history of attempt outcomes and of completed sleeps, result
  fh,             \* the other Fetcher class and its fetchHTML call
  \* ---- WebSocket hub
  conns,          \* per connection (a ws object): readyState and session id
  activeConnections, \* the Map sessionId -> ws: entries [sid, ws] in Map order
  wsOut,          \* the hub operation of the last step and the ws.send calls it made
  \* ---- rewrite engine
  rw,             \* the document handed to a rewriter, its base, the engine and
                  \* the output of each pass made over it so far
  \* ---- iframe handler
  ifr,            \* the processNestedIframes call: document, depth, rewrites made
  \* ---- admin notifications
  recentNotifications, \* Map type -> timestamps (a function on the types it holds)
  NOTIFY_HISTORY, \* the payloads pushed, as [type, timestamp], oldest first
  adminCalls      \* history: the notifyAdmin calls: type, time and outcome

poolVars == <<browsers, inUse, queue, isShuttingDown, pq, jobs, runsOn,
              launched, open, closing, shut>>

throttleVars == <<ipStore, sweepDue, decisions, statsOut>>

cacheVars == <<memoryCache, disk, pendingDisk, stats, calls, cacheOps,
               lastGet, race, gets, cacheErr, diskErrors, deleted>>

cookieVars == <<sessions, stored, cookieOut, cookieOps>>

hubVars == <<conns, activeConnections, wsOut>>
notifyVars == <<recentNotifications, NOTIFY_HISTORY, adminCalls>>
lateVars == <<rw, ifr, notifyVars>>

vars == <<now, poolVars, throttleVars, prq, cacheVars, cookieVars, fx, fh,
          hubVars, lateVars>>

\* what the actions of one component leave alone
notPool == <<now, throttleVars, prq, cacheVars, cookieVars, fx, fh, hubVars,
    lateVars>>
notThrottle == <<poolVars, prq, cacheVars, cookieVars, fx, fh, hubVars,
    lateVars>>
notProxy == <<poolVars, cacheVars, cookieVars, fx, fh, hubVars,
    lateVars>>
notCache == <<poolVars, throttleVars, prq, cookieVars, fx, fh, hubVars,
    lateVars>>
notCookies == <<poolVars, throttleVars, prq, cacheVars, fx, fh, hubVars,
    lateVars>>
notFetcher == <<now, poolVars, throttleVars, prq, cacheVars, cookieVars, hubVars,
    lateVars>>
notFx == <<fh, notFetcher>>
notFh == <<fx, notFetcher>>
notTime == <<poolVars, throttleVars, prq, cacheVars, cookieVars, fx, fh, hubVars,
    lateVars>>
notHub == <<poolVars, throttleVars, prq, cacheVars, cookieVars, fx, fh,
    lateVars>>
notEarly == <<now, poolVars, throttleVars, prq, cacheVars, cookieVars, fx, fh,
              hubVars>>
notRw == <<notEarly, ifr, notifyVars>>
notIfr == <<notEarly, rw, notifyVars>>
notNotify == <<poolVars, throttleVars, prq, cacheVars, cookieVars, fx, fh,
               rw, ifr>>

-----------------------------------------------------------------------------
(* Bounds and parameters *)

\* Date.now() runs over 0..MaxTime
MaxTime == 3

\* number of render jobs the callers issue
MaxJobs == 3

\* number of puppeteer.launch calls that may resolve
MaxLaunch == 4

\* WebSocket connections one check opens
MaxConns == 2

\* opts.maxBrowsers of the pool under check
maxBrowsers == 2

\* requests one check sends through the rate limiter
MaxReq == 5

\* throttler constants, scaled: the source has RATE_LIMIT = 100,
\* WINDOW_MS = 60 * 1000 and bursts = 5 (src/unnamed/part_003 148-150); the
\* admission rule reads them only through RATE_LIMIT + bursts and "< WINDOW_MS"
RATE_LIMIT == 1
WINDOW_MS == 2
bursts == 1

IPs == {"ip1", "ip2"}

\* cache calls one check starts
MaxCacheOps == 4

\* cache calls a caller that awaits each call makes in one check
MaxSeqOps == 3

\* opts.maxMemoryItems of the cache under check (the default is 1000)
maxMemoryItems == 1

\* this.defaultTTL, scaled: the source has 5 * 60 * 1000 ms
defaultTTL == 2

\* the data of the n-th cache call is n: every set stores a value of its own
Keys == {"a", "b"}

\* the ttl argument of set; 0 stands for null/0, which selects defaultTTL
TTLs == {0, 1}

\* cache calls that can be suspended together
MaxInFlight == 2

\* cookie jar calls one check makes
MaxCookieOps == 3

\* Set-Cookie headers handed to the jar before the fetch of a proxied request
MaxJarStores == 1

SessionIds == {"s1", "s2"}

\* largest maxRetries option a Fetcher is constructed with
MaxRetriesOpt == 3

\* elements with a reference in a document under rewrite
MaxEls == 1

\* times a document is passed through the same rewriter
MaxPasses == 2

\* iframes in a document handed to processIframe
MaxFrames == 2

\* notifications.js: THROTTLE_WINDOW (60 * 1000 ms) and THROTTLE_LIMIT (5),
\* scaled to the model's clock
THROTTLE_WINDOW == 2
THROTTLE_LIMIT == 2

\* notifyAdmin calls one check makes
MaxNotify == 3

\* NOTIFY_HISTORY entries up to which notifyUser is called
MaxUserNotes == 1

Jobs == 1..MaxJobs
BrowserIds == 1..MaxLaunch

\* A _processQueue invocation is started by requestRender of job j ("req", j)
\* or by the setImmediate callback after job j settled ("done", j).
PQIds == {"req", "done"} \X Jobs

\* pc of an invocation:
\*   "none"      not started
\*   "scheduled" setImmediate callback queued
\*   "gotEntry"  _getAvailableBrowser has an entry, _processQueue not yet resumed
\*   "gotNull"   _getAvailableBrowser returned null, _processQueue not yet resumed
\*   "launching" awaiting puppeteer.launch
\*   "running"   awaiting job.renderFn(browser)
\*   "returned"  returned normally
\*   "threw"     its promise rejected (nobody handles it)
PQNone == [pc |-> "none", entry |-> 0, job |-> 0]

-----------------------------------------------------------------------------
(* PuppeteerPool *)

\* this.browsers.find(b => !b.inUse): the first idle entry, 0 when there is none
FindFree(bs, use) ==
  IF \E i \in 1..Len(bs) : ~use[bs[i]]
  THEN bs[CHOOSE i \in 1..Len(bs) :
            ~use[bs[i]] /\ \A k \in 1..(i-1) : use[bs[k]]]
  ELSE 0

\* the cap test of _getAvailableBrowser: a launch is allowed
MayLaunch(bs) == Len(bs) < maxBrowsers

\* _getAvailableBrowser up to its first suspension: the invocation's next pc
GetAvailableBrowser(bs, use) ==
  IF FindFree(bs, use) # 0
  THEN [pc |-> "gotEntry", entry |-> FindFree(bs, use), job |-> 0]
  ELSE IF MayLaunch(bs)
       THEN [pc |-> "launching", entry |-> 0, job |-> 0]
       ELSE [pc |-> "gotNull", entry |-> 0, job |-> 0]

\* _processQueue up to its first await
ProcessQueueStart(q, bs, use) ==
  IF Len(q) = 0
  THEN [pc |-> "returned", entry |-> 0, job |-> 0]
  ELSE GetAvailableBrowser(bs, use)

\* A resumption after an await on an already settled promise is a microtask:
\* it runs before any timer, setImmediate or I/O callback of the event loop.
MicrotaskPending == \E p \in PQIds : pq[p].pc \in {"gotEntry", "gotNull"}

\* requestRender(renderFn) for the next job not yet issued
RequestRender(j) ==
  /\ jobs[j] = "unissued"
  /\ \A k \in Jobs : k < j => jobs[k] # "unissued"
  /\ IF isShuttingDown
     THEN /\ jobs' = [jobs EXCEPT ![j] = "refused"]
          /\ UNCHANGED <<queue, pq>>
     ELSE /\ jobs' = [jobs EXCEPT ![j] = "queued"]
          /\ queue' = Append(queue, j)
          /\ pq' = [pq EXCEPT ![<<"req", j>>] =
                       ProcessQueueStart(Append(queue, j), browsers, inUse)]
  /\ UNCHANGED <<notPool, browsers, inUse, isShuttingDown, runsOn, launched, open,
                 closing, shut>>

\* the setImmediate callback: () => this._processQueue()
RunScheduled(p) ==
  /\ pq[p].pc = "scheduled"
  /\ ~MicrotaskPending
  /\ pq' = [pq EXCEPT ![p] = ProcessQueueStart(queue, browsers, inUse)]
  /\ UNCHANGED <<notPool, browsers, inUse, queue, isShuttingDown, jobs, runsOn,
                 launched, open, closing, shut>>

\* puppeteer.launch resolves: _launchBrowser pushes the entry and returns it
LaunchBrowser(p) ==
  /\ pq[p].pc = "launching"
  /\ ~MicrotaskPending
  /\ launched < MaxLaunch
  /\ launched' = launched + 1
  /\ browsers' = Append(browsers, launched + 1)
  /\ open' = open \cup {launched + 1}
  /\ pq' = [pq EXCEPT ![p] = [pc |-> "gotEntry", entry |-> launched + 1, job |-> 0]]
  /\ UNCHANGED <<notPool, inUse, queue, isShuttingDown, jobs, runsOn, closing, shut>>

\* puppeteer.launch rejects: the rejection leaves _processQueue unhandled
LaunchFails(p) ==
  /\ pq[p].pc = "launching"
  /\ ~MicrotaskPending
  /\ pq' = [pq EXCEPT ![p] = [pc |-> "threw", entry |-> 0, job |-> 0]]
  /\ UNCHANGED <<notPool, browsers, inUse, queue, isShuttingDown, jobs, runsOn,
                 launched, open, closing, shut>>

\* _processQueue resumes with null: return
ResumeNull(p) ==
  /\ pq[p].pc = "gotNull"
  /\ pq' = [pq EXCEPT ![p] = [pc |-> "returned", entry |-> 0, job |-> 0]]
  /\ UNCHANGED <<notPool, browsers, inUse, queue, isShuttingDown, jobs, runsOn,
                 launched, open, closing, shut>>

\* a _processQueue that takes the job from the end of the queue (pop for shift)
ResumeEntryPop(p) ==
  /\ pq[p].pc = "gotEntry"
  /\ IF Len(queue) = 0
     THEN /\ inUse' = [inUse EXCEPT ![pq[p].entry] = FALSE]
          /\ pq' = [pq EXCEPT ![p] = [pc |-> "threw", entry |-> 0, job |-> 0]]
          /\ UNCHANGED <<queue, jobs, runsOn>>
     ELSE /\ queue' = SubSeq(queue, 1, Len(queue) - 1)
          /\ inUse' = [inUse EXCEPT ![pq[p].entry] = TRUE]
          /\ jobs' = [jobs EXCEPT ![queue[Len(queue)]] = "running"]
          /\ runsOn' = [runsOn EXCEPT ![queue[Len(queue)]] = pq[p].entry]
          /\ pq' = [pq EXCEPT ![p] = [pc |-> "running", entry |-> pq[p].entry,
                                      job |-> queue[Len(queue)]]]
  /\ UNCHANGED <<notPool, browsers, isShuttingDown, launched, open, closing, shut>>

\* _processQueue resumes with an entry: shift the job, mark the entry, start
\* renderFn.  With an empty queue job is undefined: job.renderFn throws inside
\* the try, the catch resets inUse and throws again at job.reject.
ResumeEntry(p) ==
  /\ pq[p].pc = "gotEntry"
  /\ IF Len(queue) = 0
     THEN /\ inUse' = [inUse EXCEPT ![pq[p].entry] = FALSE]
          /\ pq' = [pq EXCEPT ![p] = [pc |-> "threw", entry |-> 0, job |-> 0]]
          /\ UNCHANGED <<queue, jobs, runsOn>>
     ELSE /\ queue' = Tail(queue)
          /\ inUse' = [inUse EXCEPT ![pq[p].entry] = TRUE]
          /\ jobs' = [jobs EXCEPT ![Head(queue)] = "running"]
          /\ runsOn' = [runsOn EXCEPT ![Head(queue)] = pq[p].entry]
          /\ pq' = [pq EXCEPT ![p] = [pc |-> "running", entry |-> pq[p].entry,
                                      job |-> Head(queue)]]
  /\ UNCHANGED <<notPool, browsers, isShuttingDown, launched, open, closing, shut>>

\* a _processQueue whose catch block leaves the entry marked and schedules
\* nothing
JobSettlesNoCleanup(p, ok) ==
  /\ pq[p].pc = "running"
  /\ ~MicrotaskPending
  /\ inUse' = [inUse EXCEPT ![pq[p].entry] = ~ok]
  /\ jobs' = [jobs EXCEPT ![pq[p].job] = IF ok THEN "resolved" ELSE "rejected"]
  /\ pq' = [pq EXCEPT ![p] = [pc |-> "returned", entry |-> 0, job |-> 0],
                      ![<<"done", pq[p].job>>] =
                          [pc |-> IF ok THEN "scheduled" ELSE "none",
                           entry |-> 0, job |-> 0]]
  /\ UNCHANGED <<notPool, browsers, queue, isShuttingDown, runsOn, launched, open,
                 closing, shut>>

\* renderFn settles (ok: resolved, ~ok: threw): free the entry, settle the
\* job's promise, schedule the next _processQueue
JobSettles(p, ok) ==
  /\ pq[p].pc = "running"
  /\ ~MicrotaskPending
  /\ inUse' = [inUse EXCEPT ![pq[p].entry] = FALSE]
  /\ jobs' = [jobs EXCEPT ![pq[p].job] = IF ok THEN "resolved" ELSE "rejected"]
  /\ pq' = [pq EXCEPT ![p] = [pc |-> "returned", entry |-> 0, job |-> 0],
                      ![<<"done", pq[p].job>>] =
                          [pc |-> "scheduled", entry |-> 0, job |-> 0]]
  /\ UNCHANGED <<notPool, browsers, queue, isShuttingDown, runsOn, launched, open,
                 closing, shut>>

\* shutdown(): set the flag; with an empty queue go on to close every browser
\* of this.browsers (Promise.all over the array as it is now)
ShutdownStart ==
  /\ shut = "none"
  /\ isShuttingDown' = TRUE
  /\ IF Len(queue) = 0
     THEN /\ closing' = {browsers[i] : i \in 1..Len(browsers)}
          /\ shut' = "closing"
     ELSE /\ shut' = "draining"
          /\ UNCHANGED closing
  /\ UNCHANGED <<notPool, browsers, inUse, queue, pq, jobs, runsOn, launched, open>>

\* shutdown's 100 ms poll of the queue
ShutdownPoll ==
  /\ shut = "draining"
  /\ ~MicrotaskPending
  /\ Len(queue) = 0
  /\ closing' = {browsers[i] : i \in 1..Len(browsers)}
  /\ shut' = "closing"
  /\ UNCHANGED <<notPool, browsers, inUse, queue, isShuttingDown, pq, jobs, runsOn,
                 launched, open>>

\* one browser.close() of shutdown settles
BrowserCloses(b) ==
  /\ shut = "closing"
  /\ ~MicrotaskPending
  /\ b \in closing
  /\ closing' = closing \ {b}
  /\ open' = open \ {b}
  /\ UNCHANGED <<notPool, browsers, inUse, queue, isShuttingDown, pq, jobs, runsOn,
                 launched, shut>>

\* Promise.all settled: this.browsers = []
ShutdownComplete ==
  /\ shut = "closing"
  /\ closing = {}
  /\ browsers' = <<>>
  /\ shut' = "complete"
  /\ UNCHANGED <<notPool, inUse, queue, isShuttingDown, pq, jobs, runsOn, launched,
                 open, closing>>

InitPool ==
  /\ browsers = <<>>
  /\ inUse = [b \in BrowserIds |-> FALSE]
  /\ queue = <<>>
  /\ isShuttingDown = FALSE
  /\ pq = [p \in PQIds |-> PQNone]
  /\ jobs = [j \in Jobs |-> "unissued"]
  /\ runsOn = [j \in Jobs |-> 0]
  /\ launched = 0
  /\ open = {}
  /\ closing = {}
  /\ shut = "none"

NextPool ==
  \/ \E j \in Jobs : RequestRender(j)
  \/ \E p \in PQIds : RunScheduled(p)
  \/ \E p \in PQIds : LaunchBrowser(p)
  \/ \E p \in PQIds : LaunchFails(p)
  \/ \E p \in PQIds : ResumeNull(p)
  \/ \E p \in PQIds : ResumeEntry(p)
  \/ \E p \in PQIds, ok \in BOOLEAN : JobSettles(p, ok)
  \/ ShutdownStart
  \/ ShutdownPoll
  \/ \E b \in BrowserIds : BrowserCloses(b)
  \/ ShutdownComplete

\* the pool while shutdown() is not called
NextPoolJobs ==
  \/ \E j \in Jobs : RequestRender(j)
  \/ \E p \in PQIds : RunScheduled(p)
  \/ \E p \in PQIds : LaunchBrowser(p)
  \/ \E p \in PQIds : LaunchFails(p)
  \/ \E p \in PQIds : ResumeNull(p)
  \/ \E p \in PQIds : ResumeEntry(p)
  \/ \E p \in PQIds, ok \in BOOLEAN : JobSettles(p, ok)

-----------------------------------------------------------------------------
(* Logger (src/proxy/logger.js): the object every module imports as logger *)

\* the methods of class Logger
LoggerMethods == {"logInfo", "logWarn", "logError"}

\* logger.<m>(...) returns; otherwise the call throws a TypeError
LoggerHas(m) == m \in LoggerMethods

-----------------------------------------------------------------------------
(* throttler *)

\* timestamps.filter(ts => t - ts < WINDOW_MS)
Recent(ts, t) == SelectSeq(ts, LAMBDA x : t - x < WINDOW_MS)

\* a limiter that records only the requests it is going to admit
RegisterIfAllowed(store, ip, t) ==
  IF ip \in DOMAIN store
  THEN IF Len(Recent(store[ip], t)) >= RATE_LIMIT + bursts
       THEN store
       ELSE [store EXCEPT ![ip] = Append(store[ip], t)]
  ELSE [i \in DOMAIN store \cup {ip} |->
          IF i = ip THEN <<t>> ELSE store[i]]

\* registerRequest(ip): create the entry if absent, push Date.now()
RegisterRequest(store, ip, t) ==
  IF ip \in DOMAIN store
  THEN [store EXCEPT ![ip] = Append(store[ip], t)]
  ELSE [i \in DOMAIN store \cup {ip} |->
          IF i = ip THEN <<t>> ELSE store[i]]

\* a limiter that compares with < where the source has <=
IsAllowedStrict(store, ip, t) ==
  IF ip \notin DOMAIN store
  THEN TRUE
  ELSE Len(Recent(store[ip], t)) < RATE_LIMIT + bursts

\* a limiter that lets one request more through
IsAllowedOffByOne(store, ip, t) ==
  IF ip \notin DOMAIN store
  THEN TRUE
  ELSE Len(Recent(store[ip], t)) <= RATE_LIMIT + bursts + 1

\* isAllowed(ip)
IsAllowed(store, ip, t) ==
  IF ip \notin DOMAIN store
  THEN TRUE
  ELSE Len(Recent(store[ip], t)) <= RATE_LIMIT + bursts

\* the outcome of throttleMiddleware(req, res, next) on the store after
\* registerRequest: "next" (next() called), "429" (response sent), or "threw"
\* (logger.logWarning is not a function: the TypeError leaves the middleware
\* before res.status(429))
ThrottleOutcome(store, ip, t) ==
  IF IsAllowed(store, ip, t) THEN "next"
  ELSE IF LoggerHas("logWarning") THEN "429"
  ELSE "threw"

\* a sweep that prunes the lists and deletes no entry
SweepKeepEmpty(store, t) == [i \in DOMAIN store |-> Recent(store[i], t)]

\* the setInterval callback: prune every entry, delete the empty ones
SweepStore(store, t) ==
  [i \in {k \in DOMAIN store : Len(Recent(store[k], t)) > 0} |->
     Recent(store[i], t)]

\* no getIPStats call was made in the last step
NoStats == [ip |-> "", at |-> 0, requests |-> 0]

\* requests sent so far, all ips together
NumRequests ==
  Len(decisions["ip1"]) + Len(decisions["ip2"])

\* throttleMiddleware as an Express middleware of its own
ThrottleMiddleware(ip) ==
  /\ NumRequests < MaxReq
  /\ prq.pc \in {"idle", "done"}
  /\ ipStore' = RegisterRequest(ipStore, ip, now)
  /\ decisions' = [decisions EXCEPT ![ip] =
        Append(@, <<now, ThrottleOutcome(RegisterRequest(ipStore, ip, now), ip, now)>>)]
  /\ statsOut' = NoStats
  /\ UNCHANGED <<now, sweepDue, notThrottle>>

\* getIPStats(ip): the length of the stored list, { requests: 0 } without entry
GetIPStats(ip) ==
  /\ prq.pc \in {"idle", "done"}
  /\ statsOut' = [ip |-> ip, at |-> now,
                  requests |-> IF ip \in DOMAIN ipStore
                               THEN Len(ipStore[ip]) ELSE 0]
  /\ UNCHANGED <<now, ipStore, sweepDue, decisions, notThrottle>>

\* the periodic sweep; a timer fires at its due time or later
Sweep ==
  /\ now >= sweepDue
  /\ ipStore' = SweepStore(ipStore, now)
  /\ sweepDue' = now + WINDOW_MS
  /\ statsOut' = NoStats
  /\ UNCHANGED <<now, decisions, notThrottle>>

\* time passes (not inside a microtask hop of a cache call: the calls read the
\* clock before their await only)
Tick ==
  /\ now < MaxTime
  /\ Len(calls) = 0
  /\ now' = now + 1
  /\ statsOut' = NoStats
  /\ UNCHANGED <<poolVars, ipStore, sweepDue, decisions, prq, cacheVars,
                 cookieVars, fx, fh, hubVars, lateVars>>

InitThrottle ==
  /\ ipStore = << >>
  /\ sweepDue = WINDOW_MS
  /\ decisions = [i \in IPs |-> <<>>]
  /\ statsOut = NoStats

NextThrottle ==
  \/ \E ip \in IPs : ThrottleMiddleware(ip)
  \/ \E ip \in IPs : GetIPStats(ip)
  \/ Sweep
  \/ Tick

-----------------------------------------------------------------------------
(* validator and proxyHandler *)

\* a request's url parameter: absent, or a text with the scheme it starts
\* with ("" when it has none) and its host ("" when new URL cannot parse it)
NoUrl == [given |-> FALSE, scheme |-> "", host |-> ""]
Urls == {NoUrl,
         [given |-> TRUE, scheme |-> "http", host |-> "example.com"],
         [given |-> TRUE, scheme |-> "http", host |-> "localhost"],
         [given |-> TRUE, scheme |-> "ftp", host |-> "example.com"],
         [given |-> TRUE, scheme |-> "http", host |-> ""]}

BLOCKLIST == {"localhost", "127.0.0.1", "::1", "0.0.0.0"}

\* validateURL(input) # null.  A text that does not start with http(s):// is
\* prefixed with https://, so "ftp://h/" is parsed as https://ftp://h/ (host
\* "ftp") and the protocol is always http: or https:.  The logger.logWarning
\* call of the blocked branch throws inside the try and ends in null as well.
ValidateURL(u) ==
  IF ~u.given THEN FALSE
  ELSE LET hostname == IF u.scheme \in {"http", "https", ""}
                       THEN u.host ELSE u.scheme
       IN  hostname # "" /\ hostname \notin BLOCKLIST

\* res.status(s).send(..), counted in sendCalls: the first send goes out; a send after the headers
\* were sent throws ERR_HTTP_HEADERS_SENT and sends nothing
ResSend(sent, status) == IF Len(sent) = 0 THEN <<status>> ELSE sent
ResSendThrows(sent) == Len(sent) > 0

\* the catch block of proxyHandler: logger.logError, res.status(500).send;
\* a throw of that send leaves proxyHandler as a rejected promise
Catch(r) ==
  [r EXCEPT !.pc = "done",
            !.sent = ResSend(r.sent, 500),
            !.sendCalls = @ + 1,
            !.unhandled = ResSendThrows(r.sent)]

PrqIdle == [pc |-> "idle", ip |-> "ip1", url |-> NoUrl, hasBody |-> FALSE,
            sent |-> <<>>, sendCalls |-> 0, stages |-> {}, rejected |-> FALSE,
            unhandled |-> FALSE]

\* proxyHandler up to `await throttleMiddleware(req, res, async () => {})`:
\* a throw of the middleware goes to the catch block; otherwise the handler
\* goes on whatever the middleware did (its next is a no-op)
ThrottleStage(r, outcome) ==
  IF outcome = "threw"
  THEN Catch([r EXCEPT !.rejected = TRUE])
  ELSE IF outcome = "429"
       THEN [r EXCEPT !.pc = "throttled", !.rejected = TRUE,
                      !.sent = ResSend(r.sent, 429), !.sendCalls = @ + 1]
       ELSE [r EXCEPT !.pc = "throttled"]

ProxyStart(ip, url, hasBody) ==
  /\ prq.pc \in {"idle", "done"}
  /\ NumRequests < MaxReq
  /\ ipStore' = RegisterRequest(ipStore, ip, now)
  /\ LET outcome == ThrottleOutcome(RegisterRequest(ipStore, ip, now), ip, now)
     IN  /\ decisions' = [decisions EXCEPT ![ip] = Append(@, <<now, outcome>>)]
         /\ prq' = ThrottleStage([PrqIdle EXCEPT !.ip = ip, !.url = url,
                                                 !.hasBody = hasBody], outcome)
  /\ UNCHANGED <<now, sweepDue, statsOut, notProxy>>

\* validateRequest(req, res, () => {}): req.query.url || req.body.url, then
\* validateURL; "threw" when req.body is undefined and has to be read
ValidateStage(r) ==
  IF ~r.url.given /\ ~r.hasBody THEN "threw"
  ELSE IF ValidateURL(r.url) THEN "next"
  ELSE "400"

\* proxyHandler from validateRequest to the call of fetchPage or
\* renderWithPuppeteer.  dyn is what CONFIG.dynamicSites.some(..) does:
\* "absent" (no such key: TypeError), "match", "nomatch"; callable is whether
\* the imported fetch/render function is defined.
ProxyContinue(dyn, callable) ==
  /\ prq.pc = "throttled"
  /\ LET v  == ValidateStage(prq)
         r1 == IF v = "400"
               THEN [prq EXCEPT !.sent = ResSend(prq.sent, 400),
                                !.sendCalls = @ + 1]
               ELSE prq
         validateThrew == v = "threw" \/ (v = "400" /\ ResSendThrows(prq.sent))
         r2 == [r1 EXCEPT !.stages = @ \cup {"cookies"}]
     IN  prq' =
           IF validateThrew THEN Catch(r1)
           ELSE IF ~prq.url.given
           THEN \* return res.status(400).send('No URL provided')
                IF ResSendThrows(r1.sent)
                THEN Catch([r1 EXCEPT !.sendCalls = @ + 1])
                ELSE [r1 EXCEPT !.pc = "done", !.sent = ResSend(r1.sent, 400),
                                !.sendCalls = @ + 1]
           ELSE IF dyn = "absent" \/ ~callable THEN Catch(r2)
           ELSE IF dyn = "match"
           THEN [r2 EXCEPT !.pc = "rendering", !.stages = @ \cup {"render"}]
           ELSE [r2 EXCEPT !.pc = "fetching", !.stages = @ \cup {"fetch"}]
  /\ UNCHANGED <<now, throttleVars, notProxy>>

\* the fetch or render settles; on success rewriteHTML runs (rewriteOk: it
\* returns) and processIframe is called
StageSettles(ok, rewriteOk) ==
  /\ prq.pc \in {"fetching", "rendering"}
  /\ prq' = IF ~ok THEN Catch(prq)
            ELSE IF ~rewriteOk THEN Catch(prq)
            ELSE [prq EXCEPT !.pc = "iframes",
                             !.stages = @ \cup {"rewrite"}]
  /\ UNCHANGED <<now, throttleVars, notProxy>>

\* processIframe settles; on success res.send(html)
IframeSettles(ok) ==
  /\ prq.pc = "iframes"
  /\ prq' = IF ~ok THEN Catch(prq)
            ELSE IF ResSendThrows(prq.sent)
            THEN Catch([prq EXCEPT !.sendCalls = @ + 1])
            ELSE [prq EXCEPT !.pc = "done", !.sent = ResSend(prq.sent, 200),
                             !.sendCalls = @ + 1]
  /\ UNCHANGED <<now, throttleVars, notProxy>>

InitProxy == prq = PrqIdle

NextProxy ==
  \/ \E ip \in IPs, u \in Urls, b \in BOOLEAN : ProxyStart(ip, u, b)
  \/ \E dyn \in {"absent", "match", "nomatch"}, c \in BOOLEAN :
        ProxyContinue(dyn, c)
  \/ \E ok \in BOOLEAN, rwOk \in BOOLEAN : StageSettles(ok, rwOk)
  \/ \E ok \in BOOLEAN : IframeSettles(ok)
  \/ Sweep
  \/ Tick

-----------------------------------------------------------------------------
(* ResourceCache *)

NoFile == [present |-> FALSE, data |-> 0, expire |-> 0]
\* no value (get's null, and "none" in the history notes)
Null == 0
NoGet == [key |-> "", expect |-> Null, until |-> 0, ret |-> Null, done |-> FALSE,
          failed |-> FALSE]
NoRace == [active |-> FALSE, key |-> "", data |-> Null]

\* index of key k in the Map, 0 when absent
MemIndex(mem, k) ==
  IF \E i \in 1..Len(mem) : mem[i].key = k
  THEN CHOOSE i \in 1..Len(mem) : mem[i].key = k
  ELSE 0

\* Map.set(k, {data, expire}): an existing key keeps its place in the order
MemSet(mem, k, d, e) ==
  IF MemIndex(mem, k) # 0
  THEN [mem EXCEPT ![MemIndex(mem, k)] = [key |-> k, data |-> d, expire |-> e]]
  ELSE Append(mem, [key |-> k, data |-> d, expire |-> e])

\* Map.delete(k)
MemDelete(mem, k) == SelectSeq(mem, LAMBDA x : x.key # k)

\* a cleanup that evicts the entry first in Map order (the least recently
\* inserted key)
FirstInserted(mem) == 1

\* oldest[0] of entries().sort((a, b) => a[1].expire - b[1].expire): the sort
\* is stable, so among the entries of least expire the first in Map order
OldestIndex(mem) ==
  CHOOSE i \in 1..Len(mem) :
    /\ \A k \in 1..Len(mem) : mem[i].expire <= mem[k].expire
    /\ \A k \in 1..(i-1) : mem[k].expire > mem[i].expire

\* the "LRU cleanup" of set: one entry goes when the size exceeds the bound
Cleanup(mem) ==
  IF Len(mem) > maxMemoryItems
  THEN MemDelete(mem, mem[OldestIndex(mem)].key)
  ELSE mem

\* Date.now() + (ttl || this.defaultTTL)
Expire(t, ttl) == t + (IF ttl = 0 THEN defaultTTL ELSE ttl)

\* a history note is dropped when another call (on its key, for race) starts
KeepGet(g, k) == NoGet
KeepRace(r, k) == IF r.key = k THEN NoRace ELSE r

\* calls is the microtask queue of the cache calls suspended at their
\* `await this._diskPath(key)`: each call has this one await, so the calls
\* resume in the order they were suspended
CanStart == Len(calls) < MaxInFlight /\ cacheOps < MaxCacheOps

\* a get(k) that missed in memory is suspended before its disk lookup
GetSuspended(k) ==
  \E i \in 1..Len(calls) : calls[i].pc = "getDisk" /\ calls[i].key = k

\* set(key, data, ttl) up to `await this._diskPath(key)`
SetStart(k, ttl) ==
  /\ CanStart
  /\ cacheOps' = cacheOps + 1
  /\ deleted' = [deleted EXCEPT ![k] = FALSE]
  /\ memoryCache' = Cleanup(MemSet(memoryCache, k, cacheOps + 1, Expire(now, ttl)))
  /\ calls' = Append(calls, [pc |-> "setDisk", key |-> k, data |-> cacheOps + 1,
                              expire |-> Expire(now, ttl), t0 |-> now,
                              alone |-> Len(calls) = 0])
  /\ lastGet' = KeepGet(lastGet, k)
  /\ race' = IF GetSuspended(k)
             THEN [active |-> TRUE, key |-> k, data |-> cacheOps + 1]
             ELSE KeepRace(race, k)
  /\ UNCHANGED <<now, disk, pendingDisk, stats, gets, cacheErr, diskErrors,
                 notCache>>

\* set resumes: fs.writeFile is issued and set returns
SetResume ==
  /\ Len(calls) > 0 /\ Head(calls).pc = "setDisk"
  /\ pendingDisk' = pendingDisk \cup
        {[op |-> "write", key |-> Head(calls).key, data |-> Head(calls).data,
          expire |-> Head(calls).expire]}
  /\ calls' = Tail(calls)
  /\ lastGet' = IF Head(calls).alone /\ Len(calls) = 1
                THEN [key |-> Head(calls).key, expect |-> Head(calls).data,
                      until |-> Head(calls).expire, ret |-> Null, done |-> FALSE,
                      failed |-> FALSE]
                ELSE lastGet
  /\ UNCHANGED <<now, memoryCache, disk, stats, cacheOps, race, gets, cacheErr,
                 diskErrors, deleted,
                 notCache>>

\* the value a sequential caller expects of get(k) right after its set(k, v)
Expecting(g, k, t) ==
  IF g.key = k /\ ~g.done /\ t < g.until THEN g.expect ELSE Null

\* the expiry of the set(k, v, ttl) that a sequential caller's get(k) follows
\* after the ttl has elapsed (0 in every other case)
Elapsed(g, k, t) ==
  IF g.key = k /\ ~g.done /\ g.until # 0 /\ t >= g.until THEN g.until ELSE 0

\* get(key) up to the return of a memory hit or `await this._diskPath(key)`
GetStart(k) ==
  /\ CanStart
  /\ cacheOps' = cacheOps + 1
  /\ LET i == MemIndex(memoryCache, k)
         alone == Len(calls) = 0
         expect == IF alone THEN Expecting(lastGet, k, now) ELSE Null
         until == IF alone THEN Elapsed(lastGet, k, now) ELSE 0
     IN  IF i # 0 /\ memoryCache[i].expire > now
         THEN /\ stats' = [stats EXCEPT !.hits = @ + 1]
              /\ gets' = gets + 1
              /\ lastGet' = [key |-> k, expect |-> expect, until |-> until,
                             ret |-> memoryCache[i].data, done |-> TRUE,
                             failed |-> FALSE]
              /\ UNCHANGED <<memoryCache, calls>>
         ELSE /\ memoryCache' = MemDelete(memoryCache, k)
              /\ calls' = Append(calls, [pc |-> "getDisk", key |-> k,
                                   data |-> 0, expire |-> 0, t0 |-> now,
                                   alone |-> Len(calls) = 0])
              /\ lastGet' = [key |-> k, expect |-> expect, until |-> until,
                             ret |-> Null, done |-> FALSE, failed |-> FALSE]
              /\ UNCHANGED <<stats, gets>>
  /\ race' = KeepRace(race, k)
  /\ UNCHANGED <<now, disk, pendingDisk, cacheErr, diskErrors, deleted,
                 notCache>>

\* the catch blocks of set, get and delete: logger.logError(...) and go on
CatchLogs == LoggerHas("logError")

\* a disk lookup whose failure is caught nowhere
GetDiskNoCatch(f, t0, failed) ==
  IF failed THEN "threw"
  ELSE IF f.present /\ f.expire > t0 THEN "hit" ELSE "miss"

\* the disk lookup of get, file f read at a call that took Date.now() = t0;
\* failed: fs.readFileSync or JSON.parse throws
GetDiskOutcome(f, t0, failed) ==
  IF failed THEN (IF CatchLogs THEN "miss" ELSE "threw")
  ELSE IF f.present /\ f.expire > t0 THEN "hit" ELSE "miss"

\* a get that counts its miss in the catch block and again after it
MissTwiceOnError(st, failed) ==
  [st EXCEPT !.misses = @ + (IF failed THEN 2 ELSE 1)]

\* the end of get, reached when nothing was returned before: one miss
AfterDiskMiss(st, failed) == [st EXCEPT !.misses = @ + 1]

\* get resumes at the disk lookup: promote an unexpired file into memory,
\* unlink an expired one (asynchronously), count a miss otherwise; a file
\* that exists may fail to be read or parsed
GetResume(failed) ==
  /\ Len(calls) > 0 /\ Head(calls).pc = "getDisk"
  /\ failed => disk[Head(calls).key].present
  /\ LET k == Head(calls).key
         f == disk[k]
         outcome == GetDiskOutcome(f, Head(calls).t0, failed)
         ret == IF outcome = "hit" THEN f.data ELSE Null
     IN  /\ CASE outcome = "hit" ->
                   /\ stats' = [stats EXCEPT !.hits = @ + 1]
                   /\ memoryCache' = MemSet(memoryCache, k, f.data, f.expire)
                   /\ gets' = gets + 1
                   /\ UNCHANGED <<pendingDisk, cacheErr, diskErrors>>
              [] outcome = "miss" ->
                   /\ stats' = AfterDiskMiss(stats, failed)
                   /\ pendingDisk' = IF f.present /\ ~failed
                         THEN pendingDisk \cup {[op |-> "unlink", key |-> k,
                                                 data |-> 0, expire |-> 0]}
                         ELSE pendingDisk
                   /\ gets' = gets + 1
                   /\ diskErrors' = IF failed THEN diskErrors + 1 ELSE diskErrors
                   /\ UNCHANGED <<memoryCache, cacheErr>>
              [] outcome = "threw" ->
                   /\ cacheErr' = "get"
                   /\ UNCHANGED <<stats, memoryCache, pendingDisk, gets,
                                  diskErrors>>
         /\ lastGet' = IF lastGet.key = k /\ ~lastGet.done
                       THEN [lastGet EXCEPT !.ret = ret, !.done = TRUE,
                                            !.failed = failed]
                       ELSE lastGet
  /\ calls' = Tail(calls)
  /\ UNCHANGED <<now, disk, cacheOps, race, deleted,
                 notCache>>

\* delete(key) up to its await
DeleteStart(k) ==
  /\ CanStart
  /\ cacheOps' = cacheOps + 1
  /\ memoryCache' = MemDelete(memoryCache, k)
  /\ calls' = Append(calls, [pc |-> "delDisk", key |-> k, data |-> 0,
                              expire |-> 0, t0 |-> now,
                              alone |-> Len(calls) = 0])
  /\ lastGet' = KeepGet(lastGet, k)
  /\ race' = KeepRace(race, k)
  /\ UNCHANGED <<now, disk, pendingDisk, stats, gets, cacheErr, diskErrors,
                 deleted,
                 notCache>>

\* delete resumes: fs.unlinkSync of an existing file, which may throw
DeleteResume(failed) ==
  /\ Len(calls) > 0 /\ Head(calls).pc = "delDisk"
  /\ failed => disk[Head(calls).key].present
  /\ disk' = IF failed THEN disk ELSE [disk EXCEPT ![Head(calls).key] = NoFile]
  /\ diskErrors' = IF failed /\ CatchLogs THEN diskErrors + 1 ELSE diskErrors
  /\ cacheErr' = IF failed /\ ~CatchLogs THEN "delete" ELSE cacheErr
  /\ calls' = Tail(calls)
  /\ deleted' = IF failed THEN deleted
                ELSE [deleted EXCEPT ![Head(calls).key] = TRUE]
  /\ UNCHANGED <<now, memoryCache, pendingDisk, stats, cacheOps, lastGet, race,
                 gets, notCache>>

\* one issued fs.writeFile or fs.unlink is carried out or fails; both complete
\* through callbacks of the event loop, which runs no callback while a call
\* is suspended in a microtask hop. The callback of writeFile logs an error,
\* the callback of unlink ignores it
DiskOpCompletes(o, ok) ==
  /\ o \in pendingDisk
  /\ Len(calls) = 0
  /\ pendingDisk' = pendingDisk \ {o}
  /\ disk' = IF ~ok THEN disk
             ELSE [disk EXCEPT ![o.key] =
                     IF o.op = "write"
                     THEN [present |-> TRUE, data |-> o.data, expire |-> o.expire]
                     ELSE NoFile]
  /\ diskErrors' = IF ~ok /\ o.op = "write" THEN diskErrors + 1 ELSE diskErrors
  /\ UNCHANGED <<now, memoryCache, stats, calls, cacheOps, lastGet, race,
                 gets, cacheErr, deleted,
                 notCache>>

InitCache ==
  /\ memoryCache = <<>>
  /\ disk = [k \in Keys |-> NoFile]
  /\ pendingDisk = {}
  /\ stats = [hits |-> 0, misses |-> 0]
  /\ calls = <<>>
  /\ cacheOps = 0
  /\ lastGet = NoGet
  /\ race = NoRace
  /\ gets = 0
  /\ cacheErr = ""
  /\ diskErrors = 0
  /\ deleted = [k \in Keys |-> FALSE]

NextCache ==
  \/ \E k \in Keys, ttl \in TTLs : SetStart(k, ttl)
  \/ SetResume
  \/ \E k \in Keys : GetStart(k)
  \/ \E failed \in BOOLEAN : GetResume(failed)
  \/ \E k \in Keys : DeleteStart(k)
  \/ \E failed \in BOOLEAN : DeleteResume(failed)
  \/ \E o \in pendingDisk, ok \in BOOLEAN : DiskOpCompletes(o, ok)
  \/ Tick

\* the caller awaits each call before it makes the next
SeqCanStart == Len(calls) = 0 /\ cacheOps < MaxSeqOps

\* the cache under such a caller (the disk operations the calls issued still
\* complete whenever they do)
NextCacheSeq ==
  \/ \E k \in Keys, ttl \in TTLs : SeqCanStart /\ SetStart(k, ttl)
  \/ SetResume
  \/ \E k \in Keys : SeqCanStart /\ GetStart(k)
  \/ \E failed \in BOOLEAN : GetResume(failed)
  \/ \E k \in Keys : SeqCanStart /\ DeleteStart(k)
  \/ \E failed \in BOOLEAN : DeleteResume(failed)
  \/ \E o \in pendingDisk, ok \in BOOLEAN : DiskOpCompletes(o, ok)
  \/ Tick

-----------------------------------------------------------------------------
(* cookie jar *)

\* A header is a text, held as its sequence of tokens; ";", "=" and " " are
\* tokens of their own, so that split and trim are computed on it.
Headers ==
  { <<>>,
    <<"sid", "=", "1">>,
    <<"sid", "=", "2", ";", " ", "Domain", "=", "x.com">>,
    <<"sid", "=", "3", ";", "domain", "=", "x.com", ";", " ", "Expires", "=", "t1">>,
    <<"tok", "=", "1", ";", " ", "Expires", "=", "t3", ";", " ", "Secure">>,
    <<"tok", "=", "1", ";", " ", "expires", "=", "soon">> }

\* the setCookieHeaders arrays stored in one call
HeaderLists ==
  {<<>>} \cup {<<h>> : h \in Headers} \cup
  { << <<"sid", "=", "1">>, <<"sid", "=", "4">> >>,
    << <<"sid", "=", "2", ";", " ", "Domain", "=", "x.com">>,
       <<"tok", "=", "1", ";", " ", "Expires", "=", "t3", ";", " ", "Secure">> >> }

Undefined == <<"#undefined">>
NullValue == <<"#null">>
\* cookie.expires: null, an Invalid Date, or the instant (>= 0)
NoExpires == -1
InvalidDate == -2

RECURSIVE SplitOn(_, _)
\* text.split(sep): the pieces between the separators
SplitOn(text, sep) ==
  IF \A i \in 1..Len(text) : text[i] # sep
  THEN <<text>>
  ELSE LET i == CHOOSE n \in 1..Len(text) :
                  text[n] = sep /\ \A m \in 1..(n-1) : text[m] # sep
       IN  <<SubSeq(text, 1, i - 1)>> \o SplitOn(SubSeq(text, i + 1, Len(text)), sep)

RECURSIVE Trim(_)
\* text.trim()
Trim(text) ==
  IF Len(text) > 0 /\ text[1] = " " THEN Trim(Tail(text))
  ELSE IF Len(text) > 0 /\ text[Len(text)] = " "
       THEN Trim(SubSeq(text, 1, Len(text) - 1))
       ELSE text

\* token.toLowerCase()
LowerTok(tok) ==
  CASE tok = "Domain" -> "domain"
    [] tok = "JavaScript" -> "javascript"
    [] tok = "Expires" -> "expires"
    [] tok = "Secure" -> "secure"
    [] tok = "Path" -> "path"
    [] tok = "HttpOnly" -> "httponly"
    [] tok = "SameSite" -> "samesite"
    [] OTHER -> tok

Lower(text) == [i \in 1..Len(text) |-> LowerTok(text[i])]

\* new Date(text): the instant, or an Invalid Date
DateOf(text) ==
  CASE text = <<"t1">> -> 1
    [] text = <<"t3">> -> 3
    [] OTHER -> InvalidDate

\* [a, b] = part.split('='): b is undefined when the part has no '='
SecondOf(pieces) == IF Len(pieces) >= 2 THEN pieces[2] ELSE Undefined

DefaultCookie(name, value) ==
  [name |-> name, value |-> value, path |-> <<"/">>, domain |-> NullValue,
   expires |-> NoExpires, secure |-> FALSE, httpOnly |-> FALSE,
   sameSite |-> <<"Lax">>]

\* one pass of the attribute loop of parseSetCookie
ApplyAttr(cookie, attr) ==
  LET pieces == SplitOn(attr, "=")
      attrName == Lower(pieces[1])
      attrValue == SecondOf(pieces)
  IN  CASE attrName = <<"path">> ->
             [cookie EXCEPT !.path = IF attrValue \in {Undefined, <<>>}
                                     THEN <<"/">> ELSE attrValue]
        [] attrName = <<"domain">> -> [cookie EXCEPT !.domain = attrValue]
        [] attrName = <<"expires">> -> [cookie EXCEPT !.expires = DateOf(attrValue)]
        [] attrName = <<"secure">> -> [cookie EXCEPT !.secure = TRUE]
        [] attrName = <<"httponly">> -> [cookie EXCEPT !.httpOnly = TRUE]
        [] attrName = <<"samesite">> -> [cookie EXCEPT !.sameSite = attrValue]
        [] OTHER -> cookie

RECURSIVE ApplyAttrs(_, _)
ApplyAttrs(cookie, attrs) ==
  IF attrs = <<>> THEN cookie
  ELSE ApplyAttrs(ApplyAttr(cookie, Head(attrs)), Tail(attrs))

\* parseSetCookie(header) for a header that is not empty
ParseSetCookie(header) ==
  LET split == SplitOn(header, ";")
      parts == [i \in 1..Len(split) |-> Trim(split[i])]
      nameValue == SplitOn(parts[1], "=")
  IN  ApplyAttrs(DefaultCookie(nameValue[1], SecondOf(nameValue)), Tail(parts))

\* c.name === cookie.name && c.domain === cookie.domain
SamePair(c, cookie) == c.name = cookie.name /\ c.domain = cookie.domain

\* a store that pushes without removing the cookie of the same pair
StoreNoRemove(jar, cookie) == Append(jar, cookie)

\* the loop body of storeCookies for a parsed cookie: findIndex, splice, push
StoreOne(jar, cookie) ==
  IF \E i \in 1..Len(jar) : SamePair(jar[i], cookie)
  THEN LET index == CHOOSE i \in 1..Len(jar) :
                       SamePair(jar[i], cookie) /\
                       \A k \in 1..(i-1) : ~SamePair(jar[k], cookie)
       IN  Append(SubSeq(jar, 1, index - 1) \o SubSeq(jar, index + 1, Len(jar)),
                  cookie)
  ELSE Append(jar, cookie)

RECURSIVE StoreAll(_, _)
\* the for loop of storeCookies; parseSetCookie('') is null and is skipped
StoreAll(jar, headers) ==
  IF headers = <<>> THEN jar
  ELSE IF Head(headers) = <<>> THEN StoreAll(jar, Tail(headers))
  ELSE StoreAll(StoreOne(jar, ParseSetCookie(Head(headers))), Tail(headers))

RECURSIVE ParsedOf(_)
\* history: the cookies a call stores, in order
ParsedOf(headers) ==
  IF headers = <<>> THEN <<>>
  ELSE IF Head(headers) = <<>> THEN ParsedOf(Tail(headers))
  ELSE <<ParseSetCookie(Head(headers))>> \o ParsedOf(Tail(headers))

JarOf(sid) == IF sid \in DOMAIN sessions THEN sessions[sid] ELSE <<>>

\* storeCookies(sessionId, setCookieHeaders)
StoreCookies(sid, headers) ==
  /\ cookieOps < MaxCookieOps
  /\ cookieOps' = cookieOps + 1
  /\ sessions' = [i \in DOMAIN sessions \cup {sid} |->
                    IF i = sid THEN StoreAll(JarOf(sid), headers)
                    ELSE sessions[i]]
  /\ stored' = [stored EXCEPT ![sid] = @ \o ParsedOf(headers)]
  /\ UNCHANGED <<now, cookieOut, notCookies>>

\* handleSetCookieHeader(sessionId, setCookieHeader) with one header text:
\* nothing for an empty one, storeCookies of the one-element array otherwise
HandleSetCookieHeader(sid, header) ==
  /\ cookieOps < MaxCookieOps
  /\ cookieOps' = cookieOps + 1
  /\ IF header = <<>>
     THEN UNCHANGED <<sessions, stored>>
     ELSE /\ sessions' = [i \in DOMAIN sessions \cup {sid} |->
                            IF i = sid THEN StoreAll(JarOf(sid), <<header>>)
                            ELSE sessions[i]]
          /\ stored' = [stored EXCEPT ![sid] = @ \o ParsedOf(<<header>>)]
  /\ UNCHANGED <<now, cookieOut, notCookies>>

\* a filter that keeps every cookie
NoFilter(c, t) == TRUE

\* the filter of getCookies: !c.expires || new Date() < c.expires (a
\* comparison with an Invalid Date is false)
IsValid(c, t) ==
  c.expires = NoExpires \/ (c.expires # InvalidDate /\ t < c.expires)

RECURSIVE JoinPairs(_)
\* cookies.map(c => `${c.name}=${c.value}`).join('; ')
JoinPairs(cookies) ==
  IF cookies = <<>> THEN <<>>
  ELSE IF Len(cookies) = 1
       THEN cookies[1].name \o <<"=">> \o cookies[1].value
       ELSE cookies[1].name \o <<"=">> \o cookies[1].value \o <<";", " ">>
            \o JoinPairs(Tail(cookies))

\* getCookies(sessionId) at time t
GetCookiesText(sid, t) ==
  IF sid \notin DOMAIN sessions THEN <<>>
  ELSE JoinPairs(SelectSeq(sessions[sid], LAMBDA c : IsValid(c, t)))

GetCookies(sid) ==
  /\ cookieOps < MaxCookieOps
  /\ cookieOps' = cookieOps + 1
  /\ cookieOut' = [called |-> TRUE, t |-> now, jar |-> JarOf(sid),
                   text |-> GetCookiesText(sid, now)]
  /\ UNCHANGED <<now, sessions, stored, notCookies>>

\* clearSessionCookies(sessionId)
ClearSessionCookies(sid) ==
  /\ cookieOps < MaxCookieOps
  /\ cookieOps' = cookieOps + 1
  /\ sessions' = [i \in DOMAIN sessions \ {sid} |-> sessions[i]]
  /\ stored' = [stored EXCEPT ![sid] = <<>>]
  /\ UNCHANGED <<now, cookieOut, notCookies>>

InitCookies ==
  /\ sessions = << >>
  /\ stored = [i \in SessionIds |-> <<>>]
  /\ cookieOut = [called |-> FALSE, t |-> 0, jar |-> <<>>, text |-> <<>>]
  /\ cookieOps = 0

NextCookies ==
  \/ \E sid \in SessionIds, hs \in HeaderLists : StoreCookies(sid, hs)
  \/ \E sid \in SessionIds, h \in Headers : HandleSetCookieHeader(sid, h)
  \/ \E sid \in SessionIds : GetCookies(sid)
  \/ \E sid \in SessionIds : ClearSessionCookies(sid)
  \/ Tick

-----------------------------------------------------------------------------
(* Fetcher._fetchWithRetries *)

\* opts.maxRetries of the constructor; 0 stands for a falsy or absent option
MaxRetriesOpts == (-1)..MaxRetriesOpt
Bodies == {"body1", "body2"}
Statuses == {200, 404}
Jitters == {0, 199}

\* this.maxRetries = opts.maxRetries || 3
MaxRetriesOf(opt) == IF opt = 0 THEN 3 ELSE opt

\* maxRetries read as the number of retries after the first attempt
RetriesPlusOne(maxRetries) == maxRetries + 1

\* const maxAttempts = Math.max(1, this.maxRetries)
MaxAttemptsOf(maxRetries) == IF maxRetries > 1 THEN maxRetries ELSE 1

\* a test that gives up one attempt early
GivesUpEarly(attempt, maxAttempts) == attempt + 2 >= maxAttempts

\* a test that never gives up
NeverLastAttempt(attempt, maxAttempts) == FALSE

\* the test of the catch block: attempt + 1 >= maxAttempts
LastAttempt(attempt, maxAttempts) == attempt + 1 >= maxAttempts

RECURSIVE Pow2(_)
Pow2(n) == IF n = 0 THEN 1 ELSE 2 * Pow2(n - 1)

\* 200 * Math.pow(2, attempt) + Math.floor(Math.random() * 200)
Backoff(attempt, jitter) == 200 * Pow2(attempt) + jitter

NoResult == [ok |-> FALSE, status |-> 0, text |-> ""]
NoError == [kind |-> "", attempt |-> 0]

\* opts.incomingReq: absent (null), or the client's request with its session
\* (req.sessionID || req.ip) and its Cookie header (<<>> when it has none)
NoReq == [given |-> FALSE, sid |-> "", cookie |-> <<>>]
IncomingReqs ==
  {NoReq,
   [given |-> TRUE, sid |-> "s1", cookie |-> <<>>],
   [given |-> TRUE, sid |-> "s1", cookie |-> <<"c", "=", "9">>]}

FxIdle ==
  [pc |-> "idle", maxRetries |-> 3, maxAttempts |-> 3, hasAbort |-> TRUE,
   attempt |-> 0, timer |-> FALSE, backoff |-> 0, log |-> <<>>, slept |-> <<>>,
   res |-> NoResult, result |-> NoResult, error |-> NoError,
   req |-> NoReq, attach |-> FALSE, cookieHdr |-> <<>>]

\* the Cookie header of _makeHeaders(incomingReq, extra, attachCookies):
\* incomingReq.headers.cookie when attachCookies is set and the request has
\* one, no Cookie header (<<>>) otherwise
MakeHeaders(req, attachCookies) ==
  IF attachCookies /\ req.given /\ req.cookie # <<>> THEN req.cookie ELSE <<>>

\* the catch block: the error of the last attempt is thrown, any other one
\* is followed by a sleep of the backoff
CatchBlock(f, kind, jitter) ==
  LET g == [f EXCEPT !.log = IF kind = "body"
                              THEN [@ EXCEPT ![Len(@)].out = "body"]
                              ELSE Append(@, [out |-> kind, status |-> 0, body |-> ""])]
  IN  IF LastAttempt(f.attempt, f.maxAttempts)
      THEN [g EXCEPT !.pc = "threw", !.error = [kind |-> kind, attempt |-> f.attempt]]
      ELSE [g EXCEPT !.pc = "sleeping", !.backoff = Backoff(f.attempt, jitter)]

\* the top of the try block: new fetch.AbortController() (a TypeError where
\* the installed node-fetch has no such export), setTimeout, fetch(url, ...)
BeginAttempt(f, jitter) ==
  IF f.attempt < f.maxAttempts
  THEN IF f.hasAbort
       THEN [f EXCEPT !.pc = "fetching", !.timer = TRUE,
                      !.cookieHdr = MakeHeaders(f.req, f.attach)]
       ELSE CatchBlock(f, "ctor", jitter)
  ELSE [f EXCEPT !.pc = "unreachable"]

\* new Fetcher({maxRetries: opt})._fetchWithRetries(url), up to its first await
FetchWithRetries(opt, hasAbort, jitter) ==
  /\ fx.pc = "idle"
  /\ fx' = BeginAttempt([FxIdle EXCEPT !.maxRetries = MaxRetriesOf(opt),
                                       !.maxAttempts = MaxAttemptsOf(MaxRetriesOf(opt)),
                                       !.hasAbort = hasAbort], jitter)
  /\ UNCHANGED notFx

\* fetchText(url, {incomingReq, attachCookies}) on a Fetcher with the default
\* options, up to its first await
FetchText(req, attachCookies, jitter) ==
  /\ fx.pc = "idle"
  /\ fx' = BeginAttempt([FxIdle EXCEPT !.req = req, !.attach = attachCookies],
                        jitter)
  /\ UNCHANGED notFx

\* fetch() rejects with a transport error; the attempt's timer stays set
FetchRejects(jitter) ==
  /\ fx.pc = "fetching"
  /\ fx' = CatchBlock(fx, "transport", jitter)
  /\ UNCHANGED notFx

\* the attempt's timer fires: controller.abort() rejects the fetch
TimeoutAborts(jitter) ==
  /\ fx.pc = "fetching"
  /\ fx.timer
  /\ fx' = CatchBlock([fx EXCEPT !.timer = FALSE], "abort", jitter)
  /\ UNCHANGED notFx

\* fetch() resolves with a response: clearTimeout(id), then the body is read
FetchResolves(status, body) ==
  /\ fx.pc = "fetching"
  /\ fx' = [fx EXCEPT !.pc = "reading", !.timer = FALSE,
                      !.res = [ok |-> status \in 200..299, status |-> status,
                               text |-> body],
                      !.log = Append(@, [out |-> "response", status |-> status,
                                          body |-> body])]
  /\ UNCHANGED notFx

\* the body has been read: return { ok, status, headers, text, contentType }
BodyRead ==
  /\ fx.pc = "reading"
  /\ fx' = [fx EXCEPT !.pc = "returned", !.result = fx.res]
  /\ UNCHANGED notFx

\* reading the body fails (stream error, res.text() or brotliDecompressSync)
BodyFails(jitter) ==
  /\ fx.pc = "reading"
  /\ fx' = CatchBlock(fx, "body", jitter)
  /\ UNCHANGED notFx

\* the backoff sleep ends: attempt++ and the loop test
SleepDone(jitter) ==
  /\ fx.pc = "sleeping"
  /\ fx' = BeginAttempt([fx EXCEPT !.attempt = @ + 1,
                                   !.slept = Append(@, fx.backoff)], jitter)
  /\ UNCHANGED notFx

\* the caller has the outcome; the next call is on a new Fetcher
FetcherDone ==
  /\ fx.pc \in {"returned", "threw", "unreachable"}
  /\ fx' = FxIdle
  /\ UNCHANGED notFx

\* ---- the Fetcher class with fetchHTML

\* what require('./logger') gives: module.exports = { logger: new Logger() }
LoggerExports == {"logger"}

\* this.maxRetries = 3 of that class
HtmlMaxRetries == 3

FhIdle == [pc |-> "idle", attempt |-> 0, log |-> <<>>, res |-> "", result |-> "",
           error |-> NoError]

\* the catch block of fetchHTML: logger.logError(err, targetUrl) on the
\* module object (a TypeError when it has no logError), attempt++, throw err
\* at the last attempt, the next turn of the while loop otherwise
HtmlCatch(f, kind) ==
  IF "logError" \notin LoggerExports
  THEN [f EXCEPT !.pc = "threw", !.error = [kind |-> "TypeError", attempt |-> f.attempt]]
  ELSE IF f.attempt + 1 = HtmlMaxRetries
       THEN [f EXCEPT !.pc = "threw", !.attempt = @ + 1,
                      !.error = [kind |-> kind, attempt |-> f.attempt]]
       ELSE [f EXCEPT !.pc = "fetching", !.attempt = @ + 1]

\* fetchHTML(targetUrl) up to its first await
FetchHTML ==
  /\ fh.pc = "idle"
  /\ fh' = [FhIdle EXCEPT !.pc = "fetching"]
  /\ UNCHANGED notFh

\* fetch() rejects (connection error, or the timeout option of node-fetch)
FetchHTMLRejects ==
  /\ fh.pc = "fetching"
  /\ fh' = HtmlCatch([fh EXCEPT !.log = Append(@, [out |-> "transport", status |-> 0])],
                     "transport")
  /\ UNCHANGED notFh

\* fetch() resolves: if (!res.ok) throw new Error(`HTTP error ${res.status}`),
\* inside the try; otherwise await res.text()
FetchHTMLResolves(status, body) ==
  /\ fh.pc = "fetching"
  /\ LET g == [fh EXCEPT !.log = Append(@, [out |-> "response", status |-> status])]
     IN  fh' = IF status \in 200..299
               THEN [g EXCEPT !.pc = "reading", !.res = body]
               ELSE HtmlCatch(g, "http")
  /\ UNCHANGED notFh

\* res.text() resolves: return text
FetchHTMLBodyRead ==
  /\ fh.pc = "reading"
  /\ fh' = [fh EXCEPT !.pc = "returned", !.result = fh.res]
  /\ UNCHANGED notFh

\* res.text() rejects
FetchHTMLBodyFails ==
  /\ fh.pc = "reading"
  /\ fh' = HtmlCatch(fh, "body")
  /\ UNCHANGED notFh

\* the caller has the outcome
FetchHTMLDone ==
  /\ fh.pc \in {"returned", "threw"}
  /\ fh' = FhIdle
  /\ UNCHANGED notFh

\* one fetchText call of a proxied request, after the Set-Cookie headers of
\* earlier upstream responses were handed to the cookie jar
NextFetchCookies ==
  \/ \E sid \in SessionIds, h \in Headers :
        fx = FxIdle /\ cookieOps < MaxJarStores /\ HandleSetCookieHeader(sid, h)
  \/ \E req \in IncomingReqs, a \in BOOLEAN, jitter \in Jitters :
        FetchText(req, a, jitter)
  \/ \E jitter \in Jitters : FetchRejects(jitter)
  \/ \E jitter \in Jitters : TimeoutAborts(jitter)
  \/ \E st \in Statuses, b \in Bodies : FetchResolves(st, b)
  \/ BodyRead
  \/ \E jitter \in Jitters : BodyFails(jitter)
  \/ \E jitter \in Jitters : SleepDone(jitter)

InitFetcher == fx = FxIdle /\ fh = FhIdle

NextFetcher ==
  \/ \E opt \in MaxRetriesOpts, hasAbort \in BOOLEAN, jitter \in Jitters :
        FetchWithRetries(opt, hasAbort, jitter)
  \/ \E jitter \in Jitters : FetchRejects(jitter)
  \/ \E jitter \in Jitters : TimeoutAborts(jitter)
  \/ \E status \in Statuses, body \in Bodies : FetchResolves(status, body)
  \/ BodyRead
  \/ \E jitter \in Jitters : BodyFails(jitter)
  \/ \E jitter \in Jitters : SleepDone(jitter)
  \/ FetcherDone
  \/ FetchHTML
  \/ FetchHTMLRejects
  \/ \E status \in Statuses, body \in Bodies : FetchHTMLResolves(status, body)
  \/ FetchHTMLBodyRead
  \/ FetchHTMLBodyFails
  \/ FetchHTMLDone

-----------------------------------------------------------------------------
(* WebSocket notification hub *)

Conns == 1..MaxConns

\* inbound messages: the three cases of handleMessage's switch, a text that
\* JSON.parse rejects, and the JSON text null (data.type throws)
Messages == {"ping", "log", "other", "garbage", "null"}

NoConn == [state |-> "none", sid |-> <<"", 0>>]
NoOut == [op |-> "", ws |-> 0, msg |-> "", sends |-> <<>>]

\* activeConnections.set(sid, ws): an existing key keeps its place and gets
\* the new value
HubSet(m, sid, ws) ==
  IF \E i \in 1..Len(m) : m[i].sid = sid
  THEN [i \in 1..Len(m) |-> IF m[i].sid = sid THEN [sid |-> sid, ws |-> ws]
                            ELSE m[i]]
  ELSE Append(m, [sid |-> sid, ws |-> ws])

\* activeConnections.delete(sid)
HubDelete(m, sid) == SelectSeq(m, LAMBDA e : e.sid # sid)

\* ws.readyState === WebSocket.OPEN
IsOpen(ws) == conns[ws].state = "open"

\* wss.on('connection'): the session id is ip + '-' + Date.now(); the entry
\* is set, the welcome message sent
WsConnect(ws, ip) ==
  /\ conns[ws].state = "none"
  /\ \A c \in Conns : c < ws => conns[c].state # "none"
  /\ conns' = [conns EXCEPT ![ws] = [state |-> "open", sid |-> <<ip, now>>]]
  /\ activeConnections' = HubSet(activeConnections, <<ip, now>>, ws)
  /\ wsOut' = [op |-> "connect", ws |-> ws, msg |-> "",
               sends |-> <<[to |-> ws, type |-> "welcome"]>>]
  /\ UNCHANGED <<now, notHub>>

\* a handler that answers nothing to a type it does not know
HandleMessageSilent(ws, type) ==
  IF type = "ping" THEN <<[to |-> ws, type |-> "pong"]>> ELSE <<>>

\* handleMessage(ws, sessionId, data): the ws.send calls of the switch
HandleMessage(ws, type) ==
  CASE type = "ping" -> <<[to |-> ws, type |-> "pong"]>>
    [] type = "log" -> <<>>
    [] OTHER -> <<[to |-> ws, type |-> "error"]>>

\* ws.on('message'): JSON.parse and handleMessage inside try; the catch
\* block logs, sends nothing and leaves the connection as it is
WsMessage(ws, m) ==
  /\ IsOpen(ws)
  /\ wsOut' = [op |-> "message", ws |-> ws, msg |-> m,
               sends |-> IF m \in {"garbage", "null"} THEN <<>>
                         ELSE HandleMessage(ws, m)]
  /\ UNCHANGED <<now, conns, activeConnections, notHub>>

\* ws.on('error'): logged only. The ws library has left the OPEN state when
\* it emits 'error', and emits 'close' afterwards
WsError(ws) ==
  /\ IsOpen(ws)
  /\ conns' = [conns EXCEPT ![ws].state = "closing"]
  /\ wsOut' = [NoOut EXCEPT !.op = "error", !.ws = ws]
  /\ UNCHANGED <<now, activeConnections, notHub>>

\* ws.on('close'): activeConnections.delete(sessionId) of the closure's id
WsClose(ws) ==
  /\ conns[ws].state \in {"open", "closing"}
  /\ conns' = [conns EXCEPT ![ws].state = "closed"]
  /\ activeConnections' = HubDelete(activeConnections, conns[ws].sid)
  /\ wsOut' = [NoOut EXCEPT !.op = "close", !.ws = ws]
  /\ UNCHANGED <<now, notHub>>

\* the entries of the Map whose ws is OPEN, in Map order
OpenEntries == SelectSeq(activeConnections, LAMBDA e : IsOpen(e.ws))

\* broadcast(data): one ws.send(payload) per entry whose ws is OPEN
Broadcast ==
  /\ wsOut' = [NoOut EXCEPT !.op = "broadcast",
                 !.sends = [i \in 1..Len(OpenEntries) |->
                              [to |-> OpenEntries[i].ws, type |-> "payload"]]]
  /\ UNCHANGED <<now, conns, activeConnections, notHub>>

\* notifySession(sessionId, message), for the session id of connection ws
NotifySession(ws) ==
  /\ conns[ws].state # "none"
  /\ LET hit == SelectSeq(activeConnections,
                           LAMBDA e : e.sid = conns[ws].sid /\ IsOpen(e.ws))
     IN  wsOut' = [NoOut EXCEPT !.op = "notify", !.ws = ws,
                     !.sends = [i \in 1..Len(hit) |->
                                  [to |-> hit[i].ws, type |-> "notification"]]]
  /\ UNCHANGED <<now, conns, activeConnections, notHub>>

InitHub ==
  /\ conns = [c \in Conns |-> NoConn]
  /\ activeConnections = <<>>
  /\ wsOut = NoOut

NextHub ==
  \/ \E ws \in Conns, ip \in IPs : WsConnect(ws, ip)
  \/ \E ws \in Conns, m \in Messages : WsMessage(ws, m)
  \/ \E ws \in Conns : WsError(ws)
  \/ \E ws \in Conns : WsClose(ws)
  \/ Broadcast
  \/ \E ws \in Conns : NotifySession(ws)
  \/ Tick

-----------------------------------------------------------------------------
(* rewrite.js: rewriteHtml, and the regular-expression rewriter
   Rewriter.rewriteHTML *)

\* A reference or URL is its text cut into tokens: each of the characters
\* ":" "/" "?" "=" "#" "%" and " " is a token of its own, the text between
\* two of them is one token.

\* DEFAULT_OPTS
resourceRoute == <<"/", "resource", "?", "url", "=">>
proxyRoute == <<"/", "proxy", "?", "url", "=">>

\* baseUrl: https://example.com/page and https://example.com/docs/page
BaseUrls ==
  { <<"https", ":", "/", "/", "example.com", "/", "page">>,
    <<"https", ":", "/", "/", "example.com", "/", "docs", "/", "page">> }

\* the attribute values a document under rewrite carries
Refs ==
  { <<>>,
    <<"#", "top">>,
    <<" ", "#", "top">>,
    <<"JavaScript", ":", "void(0)">>,
    <<"mailto", ":", "admin">>,
    <<"/", "logo.png">>,
    <<"logo.png">>,
    <<"https", ":", "/", "/", "cdn.test", "/", "x.js">>,
    <<"http", ":", "/", "/">> }

Tags == {"a", "link", "script", "img", "source", "iframe", "form"}

\* the attribute of a tag that holds its reference
AttrOf(tag) ==
  IF tag \in {"a", "link"} THEN "href"
  ELSE IF tag = "form" THEN "action" ELSE "src"

Elements == [tag : Tags, ref : Refs]

\* a document: its elements with their reference, whether it has a <style>
\* block and a <base> tag, the navigation shims at the end of its body; threw
\* marks the outcome of a rewrite that threw instead of returning a document
Documents ==
  { [els |-> e, style |-> s, baseTag |-> bt, shims |-> 0, threw |-> FALSE] :
      e \in UNION {[1..n -> Elements] : n \in 0..MaxEls},
      s \in BOOLEAN, bt \in BOOLEAN }

NoDocument ==
  [els |-> <<>>, style |-> FALSE, baseTag |-> FALSE, shims |-> 0, threw |-> FALSE]

Threw == [NoDocument EXCEPT !.threw = TRUE]

\* encodeURIComponent of one character
EncTok(tok) ==
  CASE tok = ":" -> <<"%", "3A">>
    [] tok = "/" -> <<"%", "2F">>
    [] tok = "?" -> <<"%", "3F">>
    [] tok = "=" -> <<"%", "3D">>
    [] tok = "#" -> <<"%", "23">>
    [] tok = "%" -> <<"%", "25">>
    [] tok = " " -> <<"%", "20">>
    [] OTHER -> <<tok>>

RECURSIVE encodeURIComponent(_)
encodeURIComponent(text) ==
  IF text = <<>> THEN <<>>
  ELSE EncTok(Head(text)) \o encodeURIComponent(Tail(text))

\* the index of the last "/" of a URL
LastSlash(url) ==
  CHOOSE i \in 1..Len(url) :
    url[i] = "/" /\ \A j \in (i + 1)..Len(url) : url[j] # "/"

\* absify: new URL(urlOrPath, base).href, or null (the empty text here: the
\* callers test the result with !abs only) when the constructor throws
absify(urlOrPath, base) ==
  LET t == Trim(urlOrPath)
  IN  IF t = <<>> THEN base
      ELSE IF Len(t) >= 2 /\ t[2] = ":"
      THEN IF LowerTok(t[1]) \in {"http", "https"}
           THEN IF Len(t) >= 5 /\ t[3] = "/" /\ t[4] = "/"
                THEN <<LowerTok(t[1])>> \o Tail(t)
                ELSE <<>>                        \* no host: Invalid URL
           ELSE <<LowerTok(t[1])>> \o Tail(t)
      ELSE IF t[1] = "/" THEN SubSeq(base, 1, 5) \o t
      ELSE IF t[1] \in {"#", "?"} THEN base \o t
      ELSE SubSeq(base, 1, LastSlash(base)) \o t

shouldIgnoreUrl(href) ==
  \/ href = <<>>
  \/ LET trimmed == Trim(href)
     IN  \/ trimmed = <<>>
         \/ trimmed[1] = "#"
         \/ Len(trimmed) >= 2 /\ trimmed[2] = ":"
            /\ LowerTok(trimmed[1]) \in {"javascript", "mailto"}

proxifyUrl(absUrl, isAsset) ==
  (IF isAsset THEN resourceRoute ELSE proxyRoute) \o encodeURIComponent(absUrl)

\* the value rewriteHtml leaves in the reference of one element
RewriteElement(el, baseUrl) ==
  LET skip == IF el.tag = "a" THEN shouldIgnoreUrl(el.ref) ELSE el.ref = <<>>
      abs == absify(el.ref, baseUrl)
  IN  IF skip \/ abs = <<>> THEN el
      ELSE [el EXCEPT !.ref = proxifyUrl(abs, el.tag \in {"link", "script", "img", "source"})]

\* rewriteHtml(html, baseUrl): the <base> tags removed, the elements rewritten,
\* the <style> blocks handed to rewriteCssUrls (a name cssParser does not
\* export: the call throws), the shim appended to the body
rewriteHtml(html, baseUrl) ==
  IF html.style THEN Threw
  ELSE [html EXCEPT !.baseTag = FALSE,
                    !.els = [i \in 1..Len(html.els) |->
                               RewriteElement(html.els[i], baseUrl)],
                    !.shims = @ + 1]

\* Rewriter.rewriteHTML(html, baseUrl), and parseAndRewriteHTML's pass over
\* href and src: every non-empty href="..." or src="..." of the text
rewriteHTML(html, baseUrl) ==
  [html EXCEPT !.els = [i \in 1..Len(html.els) |->
     LET el == html.els[i]
         abs == absify(el.ref, baseUrl)
     IN  IF AttrOf(el.tag) = "action" \/ el.ref = <<>> \/ abs = <<>> THEN el
         ELSE [el EXCEPT !.ref = proxyRoute \o encodeURIComponent(abs)]]]

Engines == {"rewriteHtml", "rewriteHTML"}

RunEngine(engine, html, baseUrl) ==
  IF engine = "rewriteHtml" THEN rewriteHtml(html, baseUrl)
  ELSE rewriteHTML(html, baseUrl)

RwIdle ==
  [passes |-> 0, engine |-> "", html |-> NoDocument, baseUrl |-> <<>>,
   first |-> NoDocument, out |-> NoDocument]

\* a caller hands a fetched document to one of the rewriters
Rewrite(engine, html, baseUrl) ==
  /\ rw.passes = 0
  /\ LET res == RunEngine(engine, html, baseUrl)
     IN  rw' = [passes |-> 1, engine |-> engine, html |-> html,
                baseUrl |-> baseUrl, first |-> res, out |-> res]
  /\ UNCHANGED notRw

\* the output is handed to the same rewriter again, with the same base
RewriteAgain ==
  /\ rw.passes > 0 /\ rw.passes < MaxPasses
  /\ ~rw.out.threw
  /\ rw' = [rw EXCEPT !.passes = @ + 1,
                      !.out = RunEngine(rw.engine, rw.out, rw.baseUrl)]
  /\ UNCHANGED notRw

InitRewrite == rw = RwIdle

NextRewrite ==
  \/ \E e \in Engines, h \in Documents, b \in BaseUrls : Rewrite(e, h, b)
  \/ RewriteAgain

-----------------------------------------------------------------------------
(* iframeHandler.js: rewriteIframeSrc and processNestedIframes *)

\* An iframe of the document: bad when new URL(src, targetUrl) throws, last
\* when its src="..." is directly followed by ">", n the number of times its
\* src was replaced. trailingSrc: after an iframe, on the same line, some
\* element has a src="..." directly followed by ">".
Frames == [bad : BOOLEAN, last : BOOLEAN, n : {0}]

FrameDocs ==
  [frames : UNION {[1..k -> Frames] : k \in 0..MaxFrames}, trailingSrc : BOOLEAN]

NoFrames == [frames |-> <<>>, trailingSrc |-> FALSE]

\* rewriteIframeSrc: every <iframe ... src="..." is replaced by the proxied
\* src followed by the sandbox attribute and ">"; a src that does not resolve
\* is logged and left as it is
rewriteIframeSrc(doc) ==
  [doc EXCEPT !.frames = [i \in 1..Len(doc.frames) |->
     LET f == doc.frames[i]
     IN  IF f.bad THEN f ELSE [f EXCEPT !.last = FALSE, !.n = @ + 1]]]

\* /<iframe\s+.*?src=['"][^'"]+['"]>/i.test(rewritten)
HasNestedIframe(doc) ==
  /\ Len(doc.frames) > 0
  /\ (doc.trailingSrc \/ \E i \in 1..Len(doc.frames) : doc.frames[i].last)

DepthExceededLate(depth) == depth > 6

\* if (depth > 5) return htmlContent
DepthExceeded(depth) == depth > 5

IfrIdle == [pc |-> "idle", doc |-> NoFrames, depth |-> 0, applied |-> 0]

\* processIframe calls processNestedIframes(content, targetUrl): depth is 0
ProcessIframe(doc) ==
  /\ ifr.pc = "idle"
  /\ ifr' = [pc |-> "run", doc |-> doc, depth |-> 0, applied |-> 0]
  /\ UNCHANGED notIfr

\* one level of processNestedIframes: the depth test, one rewriteIframeSrc,
\* and the recursive call or the return
ProcessNestedIframes ==
  /\ ifr.pc = "run"
  /\ IF DepthExceeded(ifr.depth)
     THEN ifr' = [ifr EXCEPT !.pc = "done"]
     ELSE LET rewritten == rewriteIframeSrc(ifr.doc)
          IN  ifr' = [ifr EXCEPT !.doc = rewritten,
                                 !.applied = @ + 1,
                                 !.depth = IF HasNestedIframe(rewritten)
                                           THEN @ + 1 ELSE @,
                                 !.pc = IF HasNestedIframe(rewritten)
                                        THEN "run" ELSE "done"]
  /\ UNCHANGED notIfr

InitIframe == ifr = IfrIdle

NextIframe ==
  \/ \E d \in FrameDocs : ProcessIframe(d)
  \/ ProcessNestedIframes

-----------------------------------------------------------------------------
(* notifications.js: notifyAdmin, notifyUser, throttle *)

NotifyTypes == {"proxy-error", "suspicious"}

\* module.exports of loggerDB.js
LoggerDBExports == {"logInfo", "logWarning", "logError", "getLogs", "logToDB"}

\* const { logger } = require('./loggerDB'): undefined unless exported, and
\* logger.logInfo(...) then throws a TypeError
NotifyLoggerDefined == "logger" \in LoggerDBExports

\* recentNotifications.get(type), [] when the Map has no such key
RecentOf(type) ==
  IF type \in DOMAIN recentNotifications THEN recentNotifications[type] ELSE <<>>

\* timestamps.filter(ts => now - ts < THROTTLE_WINDOW)
ThrottleFiltered(type, t) ==
  SelectSeq(RecentOf(type), LAMBDA ts : t - ts < THROTTLE_WINDOW)

ThrottleOverFull(filtered) == Len(filtered) > THROTTLE_LIMIT

\* if (filtered.length >= THROTTLE_LIMIT) return false
ThrottleFull(filtered) == Len(filtered) >= THROTTLE_LIMIT

\* notifyAdmin(type, message): throttle(type), then the log line, the push
\* onto NOTIFY_HISTORY and the broadcast
NotifyAdmin(type) ==
  /\ Len(adminCalls) < MaxNotify
  /\ LET filtered == ThrottleFiltered(type, now)
         had == (type :> RecentOf(type)) @@ recentNotifications
         call == [type |-> type, at |-> now, outcome |-> ""]
     IN  IF ThrottleFull(filtered)
         THEN /\ recentNotifications' = had
              /\ adminCalls' = Append(adminCalls, [call EXCEPT !.outcome = "suppressed"])
              /\ UNCHANGED <<NOTIFY_HISTORY, wsOut>>
         ELSE /\ recentNotifications' = [had EXCEPT ![type] = Append(filtered, now)]
              /\ IF ~NotifyLoggerDefined
                 THEN /\ adminCalls' = Append(adminCalls, [call EXCEPT !.outcome = "threw"])
                      /\ UNCHANGED <<NOTIFY_HISTORY, wsOut>>
                 ELSE /\ adminCalls' = Append(adminCalls, [call EXCEPT !.outcome = "broadcast"])
                      /\ NOTIFY_HISTORY' = Append(NOTIFY_HISTORY, [type |-> type, timestamp |-> now])
                      /\ wsOut' = [NoOut EXCEPT !.op = "broadcast",
                                     !.sends = [i \in 1..Len(OpenEntries) |->
                                        [to |-> OpenEntries[i].ws, type |-> "payload"]]]
  /\ UNCHANGED <<now, conns, activeConnections, notNotify>>

\* notifyUser(sessionId, type, message), for the session id of connection ws
\* (an id the hub has no entry for when ws never connected)
NotifyUser(ws, type) ==
  /\ Len(NOTIFY_HISTORY) < MaxUserNotes
  /\ NOTIFY_HISTORY' = Append(NOTIFY_HISTORY, [type |-> type, timestamp |-> now])
  /\ LET hit == SelectSeq(activeConnections,
                           LAMBDA e : e.sid = conns[ws].sid /\ IsOpen(e.ws))
     IN  wsOut' = [NoOut EXCEPT !.op = "notify", !.ws = ws,
                     !.sends = [i \in 1..Len(hit) |->
                                  [to |-> hit[i].ws, type |-> "notification"]]]
  /\ UNCHANGED <<now, conns, activeConnections, recentNotifications, adminCalls,
                 notNotify>>

InitNotify ==
  /\ recentNotifications = << >>
  /\ NOTIFY_HISTORY = <<>>
  /\ adminCalls = <<>>

NextNotify ==
  \/ \E t \in NotifyTypes : NotifyAdmin(t)
  \/ \E t \in NotifyTypes : NotifyUser(1, t)
  \/ Tick

-----------------------------------------------------------------------------
(* Specifications *)

InitAll ==
  now = 0 /\ InitPool /\ InitThrottle /\ InitProxy /\ InitCache
  /\ InitCookies
  /\ InitFetcher
  /\ InitHub
  /\ InitRewrite
  /\ InitIframe
  /\ InitNotify

SpecPool ==
  InitAll /\ [][NextPool]_vars


SpecPoolJobs == InitAll /\ [][NextPoolJobs]_vars

\* the event loop runs what is queued (microtask resumptions, setImmediate
\* callbacks), a pending puppeteer.launch settles and a started renderFn
\* settles: while one of these steps can be taken, one is taken
PoolProgress ==
  \/ \E p \in PQIds : RunScheduled(p)
  \/ \E p \in PQIds : ResumeNull(p)
  \/ \E p \in PQIds : ResumeEntry(p)
  \/ \E p \in PQIds : LaunchBrowser(p) \/ LaunchFails(p)
  \/ \E p \in PQIds, ok \in BOOLEAN : JobSettles(p, ok)

SpecPoolJobsLive == SpecPoolJobs /\ WF_vars(PoolProgress)

SpecThrottle == InitAll /\ [][NextThrottle]_vars

SpecProxy == InitAll /\ [][NextProxy]_vars

SpecCache == InitAll /\ [][NextCache]_vars

SpecCacheSeq == InitAll /\ [][NextCacheSeq]_vars

SpecCookies == InitAll /\ [][NextCookies]_vars

SpecFetcher == InitAll /\ [][NextFetcher]_vars

\* the timers of the program fire: the attempt's abort timer while it is set,
\* and the backoff sleep.  What the origin does (answer, fail, send a body or
\* stall) is left to the environment.
SpecHub == InitAll /\ [][NextHub]_vars

SpecRewrite == InitAll /\ [][NextRewrite]_vars

SpecIframe == InitAll /\ [][NextIframe]_vars

SpecIframeLive == SpecIframe /\ WF_vars(ProcessNestedIframes)

SpecNotify == InitAll /\ [][NextNotify]_vars

SpecFetchCookies == InitAll /\ [][NextFetchCookies]_vars

SpecFetcherLive ==
  /\ SpecFetcher
  /\ WF_vars(\E jitter \in Jitters : TimeoutAborts(jitter))
  /\ WF_vars(\E jitter \in Jitters : SleepDone(jitter))

-----------------------------------------------------------------------------
(* Claims on PuppeteerPool *)

\* C1: the number of browser instances launched and not yet closed never
\* exceeds maxBrowsers, under every interleaving of requestRender calls.
C1_AtMostMaxBrowsers == Cardinality(open) <= maxBrowsers

\* C2: a browser entry never has two jobs bound to it whose renderFn has
\* started and not yet settled.
C2_OneJobPerBrowser ==
  \A b \in BrowserIds :
    Cardinality({j \in Jobs : jobs[j] = "running" /\ runsOn[j] = b}) <= 1

-----------------------------------------------------------------------------
(* Claims on the rate limiter *)

\* the requests of ip admitted (next() called) in the window that ends at t
AdmittedIn(ip, t) ==
  {i \in 1..Len(decisions[ip]) :
     /\ decisions[ip][i][2] = "next"
     /\ decisions[ip][i][1] <= t
     /\ t - decisions[ip][i][1] < WINDOW_MS}

\* C3: for every ip and every trailing window of WINDOW_MS, the number of
\* admitted requests whose timestamps fall inside it is at most
\* RATE_LIMIT + bursts.
C3_WindowBound ==
  \A ip \in IPs : \A t \in 0..now :
    Cardinality(AdmittedIn(ip, t)) <= RATE_LIMIT + bursts

\* C3 witness: an ip filled a window (a request of it was turned away) and
\* was admitted again once the window had moved on
C3_Witness ==
  \E ip \in IPs : \E i, k \in 1..Len(decisions[ip]) :
    /\ i < k
    /\ decisions[ip][i][2] # "next"
    /\ decisions[ip][k][2] = "next"
    /\ Cardinality(AdmittedIn(ip, decisions[ip][i][1])) = RATE_LIMIT + bursts

\* C4: a proxy request the rate limiter rejects ends with a 429 response and
\* runs no later pipeline stage.
C4_RejectedEnds429 ==
  (prq.pc = "done" /\ prq.rejected) =>
     (prq.sent = <<429>> /\ prq.stages = {})

-----------------------------------------------------------------------------
(* Claims on ResourceCache *)

\* C5: set(k, v, ttl) followed at once by get(k), before the ttl elapses and
\* with no other call in between, returns v, whatever the cache held before.
C5_SetThenGet ==
  (lastGet.done /\ lastGet.expect # Null) => lastGet.ret = lastGet.expect

\* C6: when set(k, v2) runs while a get(k) that missed in memory is suspended
\* before its disk lookup, then after both have finished memory holds no
\* value for k other than v2 (no older value promoted from disk).
C6_SetWinsOverGet ==
  (race.active /\ Len(calls) = 0) =>
     \A i \in 1..Len(memoryCache) :
        memoryCache[i].key = race.key => memoryCache[i].data = race.data

\* C7: the memory tier never holds more than maxMemoryItems entries once a
\* call has returned or is suspended.
C7_MemoryBounded == Len(memoryCache) <= maxMemoryItems

-----------------------------------------------------------------------------
(* Claims on the cookie jar *)

\* C8: each session's cookie list holds at most one cookie per (domain, name)
\* pair, and the one it holds is the cookie stored last with that pair.
C8_OnePerDomainName ==
  \A sid \in DOMAIN sessions :
    LET jar == sessions[sid]
        h == stored[sid]
    IN  /\ \A i, j \in 1..Len(jar) : i # j => ~SamePair(jar[i], jar[j])
        /\ \A i \in 1..Len(jar) : \E n \in 1..Len(h) :
              /\ h[n] = jar[i]
              /\ \A m \in (n+1)..Len(h) : ~SamePair(h[m], jar[i])
        /\ \A n \in 1..Len(h) : \E i \in 1..Len(jar) : SamePair(jar[i], h[n])

\* C8 witness: a session in which a stored cookie replaced an earlier one of
\* its pair while a cookie of another pair stayed
C8_Witness ==
  \E sid \in DOMAIN sessions :
    Len(sessions[sid]) >= 2 /\ Len(stored[sid]) > Len(sessions[sid])

\* the instant of c.expires is earlier than t
ExpiredAt(c, t) == c.expires >= 0 /\ c.expires < t

\* the name=value texts of a getCookies result
PairsOf(text) ==
  IF text = <<>> THEN <<>>
  ELSE LET split == SplitOn(text, ";")
       IN  [i \in 1..Len(split) |-> Trim(split[i])]

\* C9: the text getCookies returns has no name=value pair that comes from a
\* cookie whose expires instant is earlier than the time of the call: its
\* pairs are no more than the cookies not expired then, and a pair of an
\* expired cookie is in it only as the pair of a cookie that is not expired.
C9_NoExpiredCookie ==
  cookieOut.called =>
    LET jar == cookieOut.jar
        t == cookieOut.t
        pairs == PairsOf(cookieOut.text)
        live == {i \in 1..Len(jar) : ~ExpiredAt(jar[i], t)}
    IN  /\ Len(pairs) <= Cardinality(live)
        /\ \A i \in 1..Len(jar) :
             (ExpiredAt(jar[i], t) /\
              \E n \in 1..Len(pairs) : pairs[n] = jar[i].name \o <<"=">> \o jar[i].value)
             => \E k \in live : /\ jar[k].name = jar[i].name
                                /\ jar[k].value = jar[i].value

\* C9 witness: getCookies read a jar with an expired cookie and a cookie that
\* is not expired, and returned text
C9_Witness ==
  /\ cookieOut.called
  /\ cookieOut.text # <<>>
  /\ \E i, k \in 1..Len(cookieOut.jar) :
        /\ ExpiredAt(cookieOut.jar[i], cookieOut.t)
        /\ cookieOut.jar[k].expires > cookieOut.t

-----------------------------------------------------------------------------
(* Claims on the fetcher *)

\* the first two attempts failed with a transport error
TwoTransportFailures ==
  /\ fx.maxRetries = 3
  /\ Len(fx.log) >= 2
  /\ fx.log[1].out = "transport"
  /\ fx.log[2].out = "transport"

\* C10: with maxRetries = 3, after two attempts that failed with a transport
\* error the call has neither thrown nor returned, and when the third attempt
\* gets a response and its body is read, the call returns that body, after at
\* least two backoff sleeps.
C10_ThirdAttemptReturns ==
  TwoTransportFailures =>
    /\ Len(fx.log) = 2 => fx.pc \in {"sleeping", "fetching"}
    /\ (Len(fx.log) = 3 /\ fx.log[3].out = "response") =>
          /\ fx.pc \in {"reading", "returned"}
          /\ fx.pc = "returned" =>
                /\ fx.result.text = fx.log[3].body
                /\ Len(fx.slept) >= 2
                /\ \A i \in 1..Len(fx.slept) : fx.slept[i] >= 200

\* C10 witness: a call with maxRetries = 3 returned on its third attempt after
\* two transport errors
C10_Witness ==
  /\ TwoTransportFailures
  /\ Len(fx.log) = 3
  /\ fx.log[3].out = "response"
  /\ fx.pc = "returned"

\* C11: an attempt that gets a response with a non-2xx status is the call's
\* last attempt, and the call returns that response with its status; this for
\* _fetchWithRetries and for fetchHTML.
C11_NonOkNeverRetried ==
  /\ \A i \in 1..Len(fx.log) :
       (fx.log[i].out = "response" /\ fx.log[i].status \notin 200..299) =>
          /\ i = Len(fx.log)
          /\ fx.pc \in {"reading", "returned"}
          /\ fx.pc = "returned" => fx.result.status = fx.log[i].status
  /\ \A i \in 1..Len(fh.log) :
       (fh.log[i].out = "response" /\ fh.log[i].status \notin 200..299) =>
          /\ i = Len(fh.log)
          /\ fh.pc \in {"reading", "returned"}

\* every attempt so far failed with a transport error
AllTransport ==
  /\ Len(fx.log) >= 1
  /\ \A i \in 1..Len(fx.log) : fx.log[i].out = "transport"

\* C12: when every attempt fails with a transport error the call makes
\* exactly max(1, maxRetries) attempts: before that number it goes on (it
\* sleeps or fetches), at that number it has thrown, and the error it throws
\* is the one of the last attempt.
C12_LastErrorAfterMaxAttempts ==
  AllTransport =>
    LET n == IF fx.maxRetries > 1 THEN fx.maxRetries ELSE 1
    IN  /\ Len(fx.log) <= n
        /\ Len(fx.log) < n => fx.pc \in {"sleeping", "fetching"}
        /\ Len(fx.log) = n =>
              /\ fx.pc = "threw"
              /\ fx.error = [kind |-> "transport", attempt |-> n - 1]

\* C12 witness: a call with maxRetries = 3 threw after three transport errors
C12_Witness ==
  /\ AllTransport
  /\ fx.maxRetries = 3
  /\ Len(fx.log) = 3
  /\ fx.pc = "threw"

\* C13: every attempt is bounded by its timeout, whether the origin never
\* answers or stalls while the body is read, so a call that has started
\* eventually returns or throws.
C13_EveryCallEnds ==
  (fx.pc \in {"fetching", "reading", "sleeping"}) ~> (fx.pc \in {"returned", "threw"})

-----------------------------------------------------------------------------
(* More claims on the PuppeteerPool *)

\* the jobs whose renderFn has started and not settled
Running == {j \in Jobs : jobs[j] = "running"}

\* the job's renderFn has started
Started(j) == jobs[j] \in {"running", "resolved", "rejected"}

\* C14: with maxBrowsers = 2 and 3 jobs issued concurrently, no more than 2
\* jobs run at the same time: the third job's renderFn starts only after one
\* of the first two has settled.
C14_ThirdJobWaits == Cardinality(Running) <= maxBrowsers

\* C15: jobs start in the order they were enqueued: a job whose requestRender
\* came later has not started while an earlier one has not.
C15_StartInOrder ==
  \A a, b \in Jobs : (a < b /\ Started(b)) => Started(a)

\* C15 witness: a job waited in the queue and was started by the
\* _processQueue that the end of another job scheduled, after a job issued
\* before it
C15_Witness ==
  \E j \in Jobs, k \in Jobs :
    /\ pq[<<"done", j>>].pc = "running"
    /\ pq[<<"done", j>>].job = k
    /\ k > 1
    /\ \A a \in 1..(k-1) : Started(a)

\* a step in which the renderFn of the job of invocation p throws
Throws(p) ==
  /\ pq[p].pc = "running"
  /\ jobs[pq[p].job] = "running"
  /\ jobs'[pq[p].job] = "rejected"

\* C16, the step: when a job's renderFn throws, the entry that ran it is
\* marked not in use, that job and no other is rejected, the queue is left
\* as it is and the next _processQueue is scheduled.
C16_FailureStep ==
  \A p \in PQIds :
    Throws(p) =>
      /\ inUse'[pq[p].entry] = FALSE
      /\ \A k \in Jobs \ {pq[p].job} : jobs'[k] = jobs[k]
      /\ queue' = queue
      /\ pq'[<<"done", pq[p].job>>].pc = "scheduled"

\* no _processQueue invocation is pending: nothing is left for the pool to run
Quiescent == \A p \in PQIds : pq[p].pc \in {"none", "returned", "threw"}

\* C16: a job failure frees its browser entry and reaches that job's caller
\* only, and the other jobs are still started and settled: once a job has
\* failed, the pool never comes to rest with a job left queued or running.
C16_FailureIsContained ==
  /\ [][C16_FailureStep]_vars
  /\ []((Quiescent /\ \E k \in Jobs : jobs[k] = "rejected")
          => \A j \in Jobs : jobs[j] \notin {"queued", "running"})

\* the same as a liveness property of SpecPoolJobsLive: from any moment at
\* which a job has failed, a moment comes at which no job is queued or running
JobsSettleAfterFailure ==
  (\E k \in Jobs : jobs[k] = "rejected")
    ~> (\A j \in Jobs : jobs[j] \notin {"queued", "running"})

\* C16 witness: a job failed while another one was queued, and that one was
\* started afterwards by the _processQueue the failure scheduled, and resolved
C16_Witness ==
  \E k, j \in Jobs :
    /\ k # j
    /\ jobs[k] = "rejected"
    /\ jobs[j] = "resolved"
    /\ pq[<<"done", k>>].pc = "returned"
    /\ pq[<<"req", j>>].pc = "returned"
    /\ pq[<<"done", j>>].pc = "scheduled"
    /\ runsOn[j] = runsOn[k]

\* C17: shutdown closes no browser that is in use by a job still running
\* (close() is not called on it and it is not closed), and a requestRender
\* made after shutdown started is refused and not enqueued.
C17_ShutdownWaitsForJobs ==
  /\ \A j \in Running : runsOn[j] \in open \ closing
  /\ \A j \in Jobs : jobs[j] = "refused" =>
        \A i \in 1..Len(queue) : queue[i] # j

-----------------------------------------------------------------------------
(* More claims on the rate limiter *)

\* how many of the first k requests of ip fall in the window of the k-th
InWindowOf(ip, k) ==
  Cardinality({m \in 1..k :
                 decisions[ip][k][1] - decisions[ip][m][1] < WINDOW_MS})

\* C18: counting an ip's requests inside one window from an empty window,
\* every request up to number RATE_LIMIT + bursts is admitted and request
\* number RATE_LIMIT + bursts + 1 is not.
C18_BurstBoundary ==
  \A ip \in IPs : \A k \in 1..Len(decisions[ip]) :
    /\ InWindowOf(ip, k) <= RATE_LIMIT + bursts => decisions[ip][k][2] = "next"
    /\ InWindowOf(ip, k) = RATE_LIMIT + bursts + 1 => decisions[ip][k][2] # "next"

\* C18 witness: request number RATE_LIMIT + bursts of a window was admitted and
\* the next one, in the same window, was turned away
C18_Witness ==
  \E ip \in IPs : \E k \in 2..Len(decisions[ip]) :
    /\ InWindowOf(ip, k - 1) = RATE_LIMIT + bursts
    /\ decisions[ip][k - 1][2] = "next"
    /\ InWindowOf(ip, k) = RATE_LIMIT + bursts + 1
    /\ decisions[ip][k][2] # "next"

\* the timestamps of ip in the store
StoreOf(ip) == IF ip \in DOMAIN ipStore THEN ipStore[ip] ELSE <<>>

\* a step that handles a request of ip records exactly one timestamp, the
\* request's own, for that ip only, and decides on the list so extended
C19_RequestStep ==
  \A ip \in IPs :
    decisions'[ip] # decisions[ip] =>
      LET d == decisions'[ip][Len(decisions'[ip])]
      IN  /\ decisions'[ip] = Append(decisions[ip], d)
          /\ d[1] = now
          /\ ip \in DOMAIN ipStore'
          /\ ipStore'[ip] = Append(StoreOf(ip), now)
          /\ \A o \in IPs \ {ip} :
                /\ decisions'[o] = decisions[o]
                /\ (o \in DOMAIN ipStore') = (o \in DOMAIN ipStore)
                /\ o \in DOMAIN ipStore => ipStore'[o] = ipStore[o]
          /\ (d[2] = "next") =
                (Cardinality({i \in 1..Len(ipStore'[ip]) :
                                now - ipStore'[ip][i] < WINDOW_MS})
                   <= RATE_LIMIT + bursts)

\* inside the current window the store holds one timestamp per request made,
\* admitted or not
StoreMatchesRequests ==
  \A ip \in IPs : \A t \in 0..now :
    now - t < WINDOW_MS =>
      Cardinality({i \in 1..Len(StoreOf(ip)) : StoreOf(ip)[i] = t})
        = Cardinality({k \in 1..Len(decisions[ip]) : decisions[ip][k][1] = t})

\* C19: recording an attempt and deciding it are one step: the step adds the
\* request's one timestamp and decides on a list that holds every earlier
\* request of the window and no later one, so two requests of an ip made at
\* the same time are decided one fully after the other.
C19_RecordAndDecideAtomic ==
  [][C19_RequestStep]_vars /\ []StoreMatchesRequests

\* C19 witness: two requests of one ip with the same timestamp, both in the
\* store, the first admitted and the second not
C19_Witness ==
  \E ip \in IPs : \E k \in 1..(Len(decisions[ip]) - 1) :
    /\ decisions[ip][k][1] = decisions[ip][k + 1][1]
    /\ decisions[ip][k][2] = "next"
    /\ decisions[ip][k + 1][2] # "next"
    /\ Cardinality({i \in 1..Len(StoreOf(ip)) : StoreOf(ip)[i] = decisions[ip][k][1]}) >= 2

\* a step of the periodic sweep leaves only timestamps younger than WINDOW_MS
\* and no ip with an empty list
C20_SweepStep ==
  sweepDue' # sweepDue =>
    \A ip \in DOMAIN ipStore' :
      /\ Len(ipStore'[ip]) > 0
      /\ \A i \in 1..Len(ipStore'[ip]) : now' - ipStore'[ip][i] < WINDOW_MS

\* C20: immediately after each run of the sweep every timestamp kept in
\* ipStore is younger than WINDOW_MS and no ip with an empty list remains.
C20_SweepPrunes == [][C20_SweepStep]_vars

\* C20 witness: a sweep has run; it removed an ip that had made requests and
\* kept another one with its recent timestamps
C20_Witness ==
  /\ sweepDue = now + WINDOW_MS
  /\ \E ip \in IPs : Len(decisions[ip]) > 0 /\ ip \notin DOMAIN ipStore
  /\ \E ip \in DOMAIN ipStore : Len(ipStore[ip]) < Len(decisions[ip])

\* C21: every read of a rate window prunes it. After a request (which reads
\* the window through isAllowed) and after getIPStats(ip), every timestamp
\* stored for that ip is younger than WINDOW_MS, and the requests number that
\* getIPStats returns is the number of requests of the ip in the trailing
\* window.
C21_ReadStep ==
  /\ \A ip \in IPs :
       decisions'[ip] # decisions[ip] =>
         \A i \in 1..Len(ipStore'[ip]) : now' - ipStore'[ip][i] < WINDOW_MS
  /\ \A ip \in IPs :
       (statsOut' # NoStats /\ statsOut'.ip = ip) =>
         /\ \A i \in 1..Len(StoreOf(ip)') : now' - StoreOf(ip)'[i] < WINDOW_MS
         /\ statsOut'.requests
              = Cardinality({k \in 1..Len(decisions'[ip]) :
                               now' - decisions'[ip][k][1] < WINDOW_MS})

C21_ReadPrunes == [][C21_ReadStep]_vars

-----------------------------------------------------------------------------
(* More claims on ResourceCache *)

\* C22: a get(k) made once the ttl of the latest set(k, v, ttl) has elapsed,
\* with no call in between, returns null, and after it the memory tier holds
\* no entry for k.
C22_ExpiredIsAbsent ==
  (lastGet.done /\ lastGet.until # 0) =>
     /\ lastGet.ret = Null
     /\ MemIndex(memoryCache, lastGet.key) = 0

\* the entries of a memory tier, as a set
EntriesOf(mem) == {mem[i] : i \in 1..Len(mem)}

\* C23: when a set makes the memory tier exceed maxMemoryItems, exactly one
\* entry is evicted, and it is an entry of least expire among the entries in
\* memory (the one just written included); otherwise nothing is evicted.
C23_EvictStep ==
  (/\ cacheOps' = cacheOps + 1
   /\ Len(calls') = Len(calls) + 1
   /\ calls'[Len(calls')].pc = "setDisk") =>
    LET c == calls'[Len(calls')]
        e == [key |-> c.key, data |-> c.data, expire |-> c.expire]
        after == {x \in EntriesOf(memoryCache) : x.key # c.key} \cup {e}
    IN  IF Cardinality(after) > maxMemoryItems
        THEN /\ Len(memoryCache') = Cardinality(after) - 1
             /\ \E x \in after :
                  /\ \A y \in after : x.expire <= y.expire
                  /\ EntriesOf(memoryCache') = after \ {x}
        ELSE /\ Len(memoryCache') = Cardinality(after)
             /\ EntriesOf(memoryCache') = after

C24_GetStep ==
  /\ stats' # stats => gets' = gets + 1
  /\ gets' # gets =>
       /\ gets' = gets + 1
       /\ \/ stats'.hits = stats.hits + 1 /\ stats'.misses = stats.misses
          \/ stats'.hits = stats.hits /\ stats'.misses = stats.misses + 1
  /\ (lastGet'.done /\ ~lastGet.done /\ lastGet'.ret = Null) =>
       stats'.hits = stats.hits /\ stats'.misses = stats.misses + 1

C24_OneCountPerGet ==
  [][C24_GetStep]_vars /\ [](stats.hits + stats.misses = gets)

\* a get whose disk read failed has returned, after a get that hit
C24_Witness ==
  /\ lastGet.done /\ lastGet.failed
  /\ stats.hits >= 1 /\ stats.misses >= 1

\* C25: no cache call rejects because of disk I/O. A failed disk write or
\* read changes nothing in memory and is logged; the get whose read or parse
\* failed returns null.
C25_DiskFailureStep ==
  diskErrors' # diskErrors =>
    /\ diskErrors' = diskErrors + 1
    /\ cacheErr' = ""
    /\ memoryCache' = memoryCache
    /\ stats'.hits = stats.hits

C25_DiskFailureContained ==
  /\ [][C25_DiskFailureStep]_vars
  /\ [](cacheErr = "")
  /\ []((lastGet.done /\ lastGet.failed) => lastGet.ret = Null)

\* the write of a set has failed (its entry is in memory, no file, nothing
\* pending) and a later get has failed to read the file of another key
C25_Witness ==
  /\ lastGet.done /\ lastGet.failed
  /\ cacheErr = "" /\ diskErrors = 2 /\ pendingDisk = {}
  /\ \E i \in 1..Len(memoryCache) : ~disk[memoryCache[i].key].present

-----------------------------------------------------------------------------
(* Claims on cookie forwarding *)

\* C26: when an attempt of a fetch made with attachCookies goes out, its
\* Cookie header is what getCookies returns for the session of the incoming
\* request at that moment (no header when that is the empty text).
C26_FetchStep ==
  (fx'.pc = "fetching" /\ fx.pc # "fetching" /\ fx'.attach /\ fx'.req.given) =>
     fx'.cookieHdr = GetCookiesText(fx'.req.sid, now)

C26_CookiesFromJar == [][C26_FetchStep]_vars

-----------------------------------------------------------------------------
(* Claims on the notification hub *)

\* connection ws is the value of an entry of activeConnections
Registered(ws) == \E i \in 1..Len(activeConnections) : activeConnections[i].ws = ws

\* C27: activeConnections holds the connections that are open: an open
\* connection is registered (also when another connection got the same
\* session id), and a connection whose close event was handled is not.
C27_RegistryMatchesOpen ==
  \A ws \in Conns :
    /\ conns[ws].state = "open" => Registered(ws)
    /\ conns[ws].state = "closed" => ~Registered(ws)

\* C28: a broadcast sends the payload exactly once to every connection that
\* is open when it is called and nothing to any other connection.
C28_BroadcastReachesOpen ==
  wsOut.op = "broadcast" =>
    \A ws \in Conns :
      Cardinality({i \in 1..Len(wsOut.sends) : wsOut.sends[i].to = ws})
        = (IF conns[ws].state = "open" THEN 1 ELSE 0)

\* C29: handling an inbound message changes neither the connection's state
\* nor activeConnections; a ping is answered with one pong, a message of an
\* unknown type with one message of type error, and a message that cannot be
\* parsed with nothing.
C29_MessageStep ==
  wsOut'.op = "message" =>
    /\ conns' = conns
    /\ activeConnections' = activeConnections
    /\ conns'[wsOut'.ws].state = "open"
    /\ wsOut'.msg = "ping" =>
         wsOut'.sends = <<[to |-> wsOut'.ws, type |-> "pong"]>>
    /\ wsOut'.msg = "other" =>
         wsOut'.sends = <<[to |-> wsOut'.ws, type |-> "error"]>>
    /\ wsOut'.msg \in {"garbage", "null"} => wsOut'.sends = <<>>

C29_MessagesKeepConnection == [][C29_MessageStep]_vars

\* a registered, open connection has just received a message of unknown type
\* while another connection is registered too
C29_Witness ==
  /\ wsOut.op = "message" /\ wsOut.msg = "other"
  /\ Registered(wsOut.ws) /\ conns[wsOut.ws].state = "open"
  /\ Len(activeConnections) = 2

-----------------------------------------------------------------------------
(* More claims on proxyHandler *)

\* a url parameter that is missing, malformed (no host can be parsed), of a
\* protocol other than http and https, or of a blocked host
InvalidParam(u) ==
  \/ ~u.given
  \/ u.host = ""
  \/ u.scheme \notin {"http", "https"}
  \/ u.host \in BLOCKLIST

\* C30: a proxy request with such a url parameter, when the rate limiter let
\* it through, starts no fetch and no headless render, and it is answered
\* with status 400.
C30_InvalidUrlEnds400 ==
  (prq.pc # "idle" /\ ~prq.rejected /\ InvalidParam(prq.url)) =>
     /\ prq.stages \cap {"fetch", "render"} = {}
     /\ prq.pc = "done" => prq.sent = <<400>>

\* C31: whatever stage fails, proxyHandler finishes with one response sent
\* to the client (an error response when a stage failed) and its promise is
\* not rejected.
C31_NoErrorEscapes ==
  prq.pc = "done" => (~prq.unhandled /\ Len(prq.sent) = 1)

NonProxiable(r) ==
  LET t == Trim(r)
  IN  \/ t = <<>>
      \/ t[1] = "#"
      \/ Len(t) >= 2 /\ t[2] = ":" /\ LowerTok(t[1]) \in {"javascript", "mailto"}

\* C32: rewriteHtml replaces every reference r of a rewritable attribute by
\* '/proxy?url=' followed by the percent-encoded resolve(r, base), and leaves
\* r as it is when r is empty, fragment-only, javascript: or mailto: (or does
\* not resolve).
C32_ProxiesEveryReference ==
  (rw.engine = "rewriteHtml" /\ rw.passes >= 1 /\ ~rw.first.threw) =>
    \A i \in 1..Len(rw.html.els) :
      LET r == rw.html.els[i].ref
          abs == absify(r, rw.baseUrl)
      IN  rw.first.els[i].ref =
            IF NonProxiable(r) \/ abs = <<>> THEN r
            ELSE proxyRoute \o encodeURIComponent(abs)

\* C33: rewriting is idempotent: a second pass of the same rewriter with the
\* same base over its own output changes nothing.
C33_RewriteIdempotent ==
  rw.passes = 2 => rw.out = rw.first

\* C34: processNestedIframes terminates on every document, and applies
\* rewriteIframeSrc at most 6 times in one call.
C34_IframesTerminate ==
  (ifr.pc = "run" ~> ifr.pc = "done") /\ [](ifr.applied <= 6)

\* a call that ran into the depth cap: six rewrites, then the return
C34_Witness ==
  ifr.pc = "done" /\ ifr.applied = 6 /\ ifr.depth = 6

\* the notifyAdmin calls of a type that passed throttle, with their time in
\* the window that ends at t
PassedIn(type, t) ==
  {i \in 1..Len(adminCalls) :
     /\ adminCalls[i].type = type
     /\ adminCalls[i].outcome # "suppressed"
     /\ adminCalls[i].at <= t /\ t - adminCalls[i].at < THROTTLE_WINDOW}

BroadcastIn(type, t) ==
  {i \in PassedIn(type, t) : adminCalls[i].outcome = "broadcast"}

C39_Step ==
  /\ \A type \in NotifyTypes, t \in 0..MaxTime :
       /\ Cardinality(PassedIn(type, t)') <= THROTTLE_LIMIT
       /\ Cardinality(BroadcastIn(type, t)') <= THROTTLE_LIMIT
  /\ \A type \in NotifyTypes :
       (/\ Len(adminCalls') = Len(adminCalls) + 1
        /\ adminCalls'[Len(adminCalls')].type = type
        /\ Cardinality(PassedIn(type, now)) >= THROTTLE_LIMIT)
       => /\ adminCalls'[Len(adminCalls')].outcome = "suppressed"
          /\ NOTIFY_HISTORY' = NOTIFY_HISTORY
          /\ wsOut' = wsOut
          /\ RecentOf(type)' = RecentOf(type)

\* C39: in any trailing THROTTLE_WINDOW at most THROTTLE_LIMIT notifyAdmin
\* calls of one type pass the throttle, so at most that many are broadcast; a
\* call made when the window is full is suppressed: nothing is broadcast,
\* NOTIFY_HISTORY and the timestamps counted for the type stay as they were.
C39_AdminThrottled == [][C39_Step]_vars

\* a notifyAdmin call was suppressed after THROTTLE_LIMIT calls of its type
\* had passed within the window
C39_Witness ==
  \E i \in 1..Len(adminCalls) :
    /\ adminCalls[i].outcome = "suppressed"
    /\ Cardinality({j \in 1..(i - 1) :
          /\ adminCalls[j].type = adminCalls[i].type
          /\ adminCalls[j].outcome # "suppressed"
          /\ adminCalls[i].at - adminCalls[j].at < THROTTLE_WINDOW}) = THROTTLE_LIMIT

\* C40: _fetchWithRetries never runs the statement after its loop, the throw
\* of 'fetcher: unreachable code (retries exhausted)': the loop is left by a
\* return or by the throw of the catch block only.
C40_UnreachableNeverRuns == fx.pc # "unreachable"

\* a call whose attempts all failed: it slept after each but the last and
\* threw the last attempt's error from the catch block
C40_Witness ==
  /\ fx.pc = "threw"
  /\ fx.maxAttempts >= 2
  /\ fx.error.attempt + 1 = fx.maxAttempts
  /\ Len(fx.slept) = fx.maxAttempts - 1

\* C37: once delete(k) has returned and no set(k) was made since, a get(k)
\* returns absent, also when the disk write of an earlier set(k) had not been
\* carried out yet when delete ran.
C37_DeletedStaysAbsent ==
  [][\A k \in Keys :
       (deleted[k] /\ gets' = gets + 1 /\ lastGet'.key = k /\ lastGet'.done)
         => lastGet'.ret = Null]_vars

\* C38: once shutdown has completed no browser is open and the pool holds
\* none, and no browser is launched or added to the pool afterwards, also
\* when a _processQueue was waiting for its launch while shutdown ran.
C38_NoBrowserAfterShutdown ==
  [][(shut' = "complete") =>
       /\ open' = {} /\ browsers' = <<>>
       /\ shut = "complete" => launched' = launched]_vars

\* C35: every job requestRender accepted eventually settles (its promise is
\* resolved or rejected), given that every launch and every renderFn returns
\* or throws: a job left in the queue by a failed launch, or by a
\* _processQueue that found no free browser, is picked up later without a
\* further requestRender.
C35_AcceptedJobsSettle ==
  \A j \in Jobs :
    (jobs[j] \in {"queued", "running"}) ~> (jobs[j] \in {"resolved", "rejected"})

====
